---- MODULE Spec2Model ----
(***************************************************************************)
(* Study-session engine of AI_Flashcards (frontend/src/session.ts), its    *)
(* scoring module (frontend/src/sessionStats.ts) and the part of the       *)
(* presentation layer that drives a session (frontend/src/App.tsx).        *)
(*                                                                         *)
(* The specifications share the variables:                                 *)
(*   Spec          the session as App.tsx drives it (list, detail, setup,  *)
(*                 study, results views); answers are recorded under       *)
(*                 card.uid;                                               *)
(*   SpecAnswering Spec, with presented cards eventually answered;         *)
(*   SpecRequests  Spec, with handleStartStudy also called directly;       *)
(*   SpecEngine    the engine's exported functions called by a client that *)
(*                 follows the state machine (answers only while a card is *)
(*                 left in the cycle, startNextCycle only after            *)
(*                 shouldAdvance) but may name any card of the deck, by    *)
(*                 card.id or by card.uid, in applyAnswer;                 *)
(*   SpecHeap      the same calls on a heap of objects and references;     *)
(*   SpecScoring,  the scoring module applied to session states;           *)
(*   SpecRounding                                                          *)
(*   SpecSetup     the SessionSetup form;                                  *)
(*   SpecCard      CardView inside the study view.                         *)
(***************************************************************************)
EXTENDS Integers, Sequences, FiniteSets, TLC

VARIABLES
    view,                   \* App: useState<View>
    deckCards,              \* App: selectedDeck.cards
    sessionState,           \* App: useState<SessionState | null>
    sessionOptions,         \* App: useState<{startSide, maxCycles} | null>
    error,                  \* App: useState<string | null>
    showEndSessionConfirm,  \* App: useState(false)
    keyField,               \* which Card field the caller passes as cardId
    lastOp,                 \* history: the last operation, its arguments and input
    results,                \* what the results view computed from sessionState
    setupForm,              \* SessionSetup: useState startSide, maxCycles
    isFlipped,              \* CardView: useState(startSide === 'back')
    heap,                   \* the objects a caller of the engine holds references to
    loader                  \* App: selectedDeckId, selectedDeck, loading, decks; requests in flight

vars == <<view, deckCards, sessionState, sessionOptions, error,
          showEndSessionConfirm, keyField, lastOp, results,
          setupForm, isFlipped, heap, loader>>

----------------------------------------------------------------------------
(* Bounds *)

\* Largest deck of a session driven by App.tsx; its cards are c1 .. cMaxDeckLen.
MaxDeckLen == 3

\* Largest deck handed to the engine's functions when they are called directly.
MaxEngineDeckLen == 2

\* The session setup form offers 1..6 cycles.
MinCycles == 1
MaxCyclesOption == 6

\* The ceiling written into shouldAdvanceCycle.
HardCodedMaxCycles == 4

----------------------------------------------------------------------------
(* Cards and decks *)

\* A card as the deck endpoint returns it: id is unique within the deck,
\* uid is "<deckId>:<cardId>" (front and back text play no part in a session).
Card(n) == [id |-> "c" \o ToString(n), uid |-> "d:c" \o ToString(n)]

\* Every deck of at most maxLen cards: the sequences without repetition of
\* the cards c1 .. cmaxLen, the empty deck included.
DecksUpTo(maxLen) ==
    LET Idx == UNION {[1..n -> 1..maxLen] : n \in 0..maxLen}
        Inj == {f \in Idx : \A i, j \in DOMAIN f : f[i] = f[j] => i = j}
    IN  {[i \in DOMAIN f |-> Card(f[i])] : f \in Inj}

Decks == DecksUpTo(MaxDeckLen)

\* The deck c1 .. cn.
DeckOf(n) == [i \in 1..n |-> Card(i)]

EngineDecks == DecksUpTo(MaxEngineDeckLen)

\* The keys a caller can pass for the cards of a deck.
KeysOf(cards, field) ==
    {IF field = "id" THEN cards[i].id ELSE cards[i].uid : i \in DOMAIN cards}

AllKeys ==
    {Card(n).id : n \in 1..MaxEngineDeckLen} \cup {Card(n).uid : n \in 1..MaxEngineDeckLen}

----------------------------------------------------------------------------
(* JavaScript values *)

\* new Map()
EmptyMap == [k \in {} |-> FALSE]

\* Map.prototype.set on a copy
MapSet(m, k, v) == [x \in (DOMAIN m) \cup {k} |-> IF x = k THEN v ELSE m[x]]

\* Map.prototype.has
MapHas(m, k) == k \in DOMAIN m

\* null for sessionState (a SessionState has cycle >= 1)
NullSession ==
    [cycle |-> 0, currentCardIndex |-> 0, cycleQueue |-> <<>>,
     incorrectCardIds |-> {}, cycle1Answers |-> EmptyMap]

\* null for sessionOptions
NullOptions == [startSide |-> "none", maxCycles |-> 0]

\* IEEE 754 binary64 numbers, as JavaScript's Number: a positive value is
\* [bits |-> its 53 significand bits, most significant (always 1) first,
\*  w |-> the binary weight of the first bit], so bits <<1,0,1,0,...>> with
\* w = 2 is 5.0. Zero has the empty bit sequence.
SignificandBits == 53

FloatZero == [bits |-> <<>>, w |-> 0]

RECURSIVE Reverse(_)
Reverse(seq) ==
    IF seq = <<>> THEN <<>> ELSE Reverse(Tail(seq)) \o <<Head(seq)>>

\* The bit sequence plus one (most significant bit first; one bit longer
\* when every bit was 1).
RECURSIVE Increment(_)
Increment(bits) ==
    IF bits = <<>> THEN <<1>>
    ELSE IF bits[Len(bits)] = 0
    THEN SubSeq(bits, 1, Len(bits) - 1) \o <<1>>
    ELSE Increment(SubSeq(bits, 1, Len(bits) - 1)) \o <<0>>

\* Round to nearest, ties to even: bits (first bit 1, weight w, at least 54
\* of them) followed by a tail that is non-zero iff sticky.
RoundToNearestEven(bits, w, sticky) ==
    LET keep == SubSeq(bits, 1, SignificandBits)
        guard == bits[SignificandBits + 1]
        rest == SubSeq(bits, SignificandBits + 2, Len(bits))
        more == sticky \/ \E i \in DOMAIN rest : rest[i] = 1
        up == guard = 1 /\ (more \/ keep[SignificandBits] = 1)
        inc == Increment(keep)
    IN  IF ~up THEN [bits |-> keep, w |-> w]
        ELSE IF Len(inc) > SignificandBits
        THEN [bits |-> SubSeq(inc, 1, SignificandBits), w |-> w + 1]
        ELSE [bits |-> inc, w |-> w]

\* The next n bits of the binary expansion of r / t (0 <= r < t).
RECURSIVE QuotientBits(_, _, _)
QuotientBits(r, t, n) ==
    IF n = 0 THEN <<>>
    ELSE LET b == IF 2 * r >= t THEN 1 ELSE 0
         IN  <<b>> \o QuotientBits(2 * r - b * t, t, n - 1)

\* The remainder left after those n bits.
RECURSIVE QuotientRest(_, _, _)
QuotientRest(r, t, n) ==
    IF n = 0 THEN r
    ELSE LET b == IF 2 * r >= t THEN 1 ELSE 0
         IN  QuotientRest(2 * r - b * t, t, n - 1)

\* The e >= 0 with t <= c * 2^e < 2t (0 < c <= t).
RECURSIVE LeadingShift(_, _)
LeadingShift(c, t) == IF c >= t THEN 0 ELSE 1 + LeadingShift(2 * c, t)

\* c * 2^e
RECURSIVE ShiftLeft(_, _)
ShiftLeft(c, e) == IF e = 0 THEN c ELSE ShiftLeft(2 * c, e - 1)

\* The Number c / t for integers 0 <= c <= t, t > 0.
FloatDivide(c, t) ==
    IF c = 0 THEN FloatZero
    ELSE LET e == LeadingShift(c, t)
             r == ShiftLeft(c, e) - t
         IN  RoundToNearestEven(<<1>> \o QuotientBits(r, t, SignificandBits),
                                -e,
                                QuotientRest(r, t, SignificandBits) # 0)

\* The bits of (the number with these bits, least significant first) * k + carry,
\* least significant first.
RECURSIVE TimesSmall(_, _, _)
TimesSmall(lsbFirst, k, carry) ==
    IF lsbFirst = <<>>
    THEN IF carry = 0 THEN <<>>
         ELSE <<carry % 2>> \o TimesSmall(<<>>, k, carry \div 2)
    ELSE LET v == Head(lsbFirst) * k + carry
         IN  <<v % 2>> \o TimesSmall(Tail(lsbFirst), k, v \div 2)

\* The Number x * k for a small integer k >= 2.
FloatTimes(x, k) ==
    IF x.bits = <<>> THEN FloatZero
    ELSE LET product == Reverse(TimesSmall(Reverse(x.bits), k, 0))
         IN  RoundToNearestEven(product, x.w + (Len(product) - Len(x.bits)), FALSE)

\* The value of a bit sequence read as a binary numeral.
RECURSIVE BitsValue(_)
BitsValue(bits) ==
    IF bits = <<>> THEN 0
    ELSE 2 * BitsValue(SubSeq(bits, 1, Len(bits) - 1)) + bits[Len(bits)]

\* Math.round(x) for 0 <= x < 2^31: the nearest integer, a half rounded up.
MathRound(x) ==
    IF x.bits = <<>> \/ x.w < -1 THEN 0
    ELSE LET whole == BitsValue(SubSeq(x.bits, 1, x.w + 1))
             half == IF x.w + 2 \in DOMAIN x.bits THEN x.bits[x.w + 2] ELSE 0
         IN  whole + half

\* Math.round((correct / total) * 100) for 0 <= correct <= total, total > 0
MathRoundPercent(correct, total) ==
    MathRound(FloatTimes(FloatDivide(correct, total), 100))

\* Number values that may be NaN.
NaN == [nan |-> TRUE, value |-> 0]

Number(n) == [nan |-> FALSE, value |-> n]

Digits == <<"0", "1", "2", "3", "4", "5", "6", "7", "8", "9">>

IsDigit(char) == \E d \in DOMAIN Digits : Digits[d] = char

DigitValue(char) == (CHOOSE d \in DOMAIN Digits : Digits[d] = char) - 1

RECURSIVE TrimStart(_)
TrimStart(text) ==
    IF text # <<>> /\ Head(text) = " " THEN TrimStart(Tail(text)) ELSE text

\* The value of the longest prefix of digits, continuing from acc.
RECURSIVE DigitPrefix(_, _)
DigitPrefix(text, acc) ==
    IF text # <<>> /\ IsDigit(Head(text))
    THEN DigitPrefix(Tail(text), 10 * acc + DigitValue(Head(text)))
    ELSE acc

\* parseInt(text, 10) of a text given as its sequence of characters: leading
\* blanks are skipped, a sign is read, then the longest prefix of digits; NaN
\* when there is no digit.
parseInt(text) ==
    LET trimmed == TrimStart(text)
        signed == trimmed # <<>> /\ Head(trimmed) \in {"-", "+"}
        digits == IF signed THEN Tail(trimmed) ELSE trimmed
        magnitude == DigitPrefix(digits, 0)
    IN  IF digits = <<>> \/ ~IsDigit(Head(digits)) THEN NaN
        ELSE IF signed /\ Head(trimmed) = "-" THEN Number(0 - magnitude)
        ELSE Number(magnitude)

\* value >= low && value <= high: false when value is NaN.
InRange(x, low, high) == ~x.nan /\ x.value >= low /\ x.value <= high

MathMax(a, b) == IF a >= b THEN a ELSE b

MathMin(a, b) == IF a <= b THEN a ELSE b

----------------------------------------------------------------------------
(* session.ts *)

\* Mutant: the cycle-1 branch is lost, every cycle filters by the incorrect set.
buildCycleQueue_AlwaysFilter(allCards, incorrectCardIds, cycle) ==
    SelectSeq(allCards, LAMBDA card : card.id \in incorrectCardIds)

buildCycleQueue(allCards, incorrectCardIds, cycle) ==
    IF cycle = 1
    THEN allCards
    ELSE SelectSeq(allCards, LAMBDA card : card.id \in incorrectCardIds)

initSession(cards) ==
    [cycle |-> 1,
     currentCardIndex |-> 0,
     cycleQueue |-> buildCycleQueue(cards, {}, 1),
     incorrectCardIds |-> {},
     cycle1Answers |-> EmptyMap]

\* Mutant: a correct answer no longer removes the card from the incorrect set.
applyAnswer_NoDelete(state, cardId, wasCorrect) ==
    LET newIncorrectIds ==
            IF ~wasCorrect
            THEN state.incorrectCardIds \cup {cardId}
            ELSE state.incorrectCardIds
        newCycle1Answers ==
            IF state.cycle = 1
            THEN MapSet(state.cycle1Answers, cardId, wasCorrect)
            ELSE state.cycle1Answers
    IN  [state EXCEPT !.currentCardIndex = state.currentCardIndex + 1,
                      !.incorrectCardIds = newIncorrectIds,
                      !.cycle1Answers = newCycle1Answers]

\* Mutant: the answer is recorded in cycle1Answers in every cycle.
applyAnswer_AlwaysRecords(state, cardId, wasCorrect) ==
    LET newIncorrectIds ==
            IF ~wasCorrect
            THEN state.incorrectCardIds \cup {cardId}
            ELSE state.incorrectCardIds \ {cardId}
        newCycle1Answers == MapSet(state.cycle1Answers, cardId, wasCorrect)
    IN  [state EXCEPT !.currentCardIndex = state.currentCardIndex + 1,
                      !.incorrectCardIds = newIncorrectIds,
                      !.cycle1Answers = newCycle1Answers]

\* Mutant: the card is added to incorrectCardIds whatever the answer.
applyAnswer_CorrectCounted(state, cardId, wasCorrect) ==
    LET newIncorrectIds == state.incorrectCardIds \cup {cardId}
        newCycle1Answers ==
            IF state.cycle = 1
            THEN MapSet(state.cycle1Answers, cardId, wasCorrect)
            ELSE state.cycle1Answers
    IN  [state EXCEPT !.currentCardIndex = state.currentCardIndex + 1,
                      !.incorrectCardIds = newIncorrectIds,
                      !.cycle1Answers = newCycle1Answers]

applyAnswer(state, cardId, wasCorrect) ==
    LET newIncorrectIds ==
            IF ~wasCorrect
            THEN state.incorrectCardIds \cup {cardId}
            ELSE state.incorrectCardIds \ {cardId}
        newCycle1Answers ==
            IF state.cycle = 1
            THEN MapSet(state.cycle1Answers, cardId, wasCorrect)
            ELSE state.cycle1Answers
    IN  [state EXCEPT !.currentCardIndex = state.currentCardIndex + 1,
                      !.incorrectCardIds = newIncorrectIds,
                      !.cycle1Answers = newCycle1Answers]

\* Mutant: the early-termination test is lost.
shouldAdvanceCycle_NoEarlyEnd(state, allCards) ==
    LET isLastCard == state.currentCardIndex >= Len(state.cycleQueue)
    IN  IF ~isLastCard
        THEN [shouldAdvance |-> FALSE, shouldEnd |-> FALSE]
        ELSE IF state.cycle >= HardCodedMaxCycles
        THEN [shouldAdvance |-> FALSE, shouldEnd |-> TRUE]
        ELSE [shouldAdvance |-> TRUE, shouldEnd |-> FALSE]

\* Mutant: the cycle counts as exhausted one answer late (> for >=).
shouldAdvanceCycle_StrictLast(state, allCards) ==
    LET isLastCard == state.currentCardIndex > Len(state.cycleQueue)
    IN  IF ~isLastCard
        THEN [shouldAdvance |-> FALSE, shouldEnd |-> FALSE]
        ELSE IF Cardinality(state.incorrectCardIds) = 0
        THEN [shouldAdvance |-> FALSE, shouldEnd |-> TRUE]
        ELSE IF state.cycle >= HardCodedMaxCycles
        THEN [shouldAdvance |-> FALSE, shouldEnd |-> TRUE]
        ELSE [shouldAdvance |-> TRUE, shouldEnd |-> FALSE]

\* Mutant: an empty incorrect set ends the session before the cycle is
\* exhausted.
shouldAdvanceCycle_EndsBeforeLast(state, allCards) ==
    IF Cardinality(state.incorrectCardIds) = 0
    THEN [shouldAdvance |-> FALSE, shouldEnd |-> TRUE]
    ELSE IF ~(state.currentCardIndex >= Len(state.cycleQueue))
    THEN [shouldAdvance |-> FALSE, shouldEnd |-> FALSE]
    ELSE IF state.cycle >= HardCodedMaxCycles
    THEN [shouldAdvance |-> FALSE, shouldEnd |-> TRUE]
    ELSE [shouldAdvance |-> TRUE, shouldEnd |-> FALSE]

\* Mutant: the ceiling is one cycle later.
shouldAdvanceCycle_FiveCycles(state, allCards) ==
    LET isLastCard == state.currentCardIndex >= Len(state.cycleQueue)
    IN  IF ~isLastCard
        THEN [shouldAdvance |-> FALSE, shouldEnd |-> FALSE]
        ELSE IF Cardinality(state.incorrectCardIds) = 0
        THEN [shouldAdvance |-> FALSE, shouldEnd |-> TRUE]
        ELSE IF state.cycle >= HardCodedMaxCycles + 1
        THEN [shouldAdvance |-> FALSE, shouldEnd |-> TRUE]
        ELSE [shouldAdvance |-> TRUE, shouldEnd |-> FALSE]

\* Mutant: a cycle without cards is never exhausted.
shouldAdvanceCycle_EmptyContinues(state, allCards) ==
    LET isLastCard == state.currentCardIndex >= Len(state.cycleQueue)
    IN  IF ~isLastCard \/ Len(state.cycleQueue) = 0
        THEN [shouldAdvance |-> FALSE, shouldEnd |-> FALSE]
        ELSE IF Cardinality(state.incorrectCardIds) = 0
        THEN [shouldAdvance |-> FALSE, shouldEnd |-> TRUE]
        ELSE IF state.cycle >= HardCodedMaxCycles
        THEN [shouldAdvance |-> FALSE, shouldEnd |-> TRUE]
        ELSE [shouldAdvance |-> TRUE, shouldEnd |-> FALSE]

shouldAdvanceCycle(state, allCards) ==
    LET isLastCard == state.currentCardIndex >= Len(state.cycleQueue)
    IN  IF ~isLastCard
        THEN [shouldAdvance |-> FALSE, shouldEnd |-> FALSE]
        ELSE IF Cardinality(state.incorrectCardIds) = 0
        THEN [shouldAdvance |-> FALSE, shouldEnd |-> TRUE]
        ELSE IF state.cycle >= HardCodedMaxCycles
        THEN [shouldAdvance |-> FALSE, shouldEnd |-> TRUE]
        ELSE [shouldAdvance |-> TRUE, shouldEnd |-> FALSE]

\* Mutant: the new cycle starts with an emptied incorrect set.
startNextCycle_ClearsIncorrect(state, allCards) ==
    LET nextCycle == state.cycle + 1
        nextQueue == buildCycleQueue(allCards, state.incorrectCardIds, nextCycle)
    IN  [state EXCEPT !.cycle = nextCycle,
                      !.currentCardIndex = 0,
                      !.cycleQueue = nextQueue,
                      !.incorrectCardIds = {}]

\* Mutant: the queue is built for the cycle that ends, not the one that starts.
startNextCycle_StaleCycle(state, allCards) ==
    LET nextCycle == state.cycle + 1
        nextQueue == buildCycleQueue(allCards, state.incorrectCardIds, state.cycle)
    IN  [state EXCEPT !.cycle = nextCycle,
                      !.currentCardIndex = 0,
                      !.cycleQueue = nextQueue]

\* Mutant: the card index is not reset when the cycle starts.
startNextCycle_KeepsIndex(state, allCards) ==
    LET nextCycle == state.cycle + 1
        nextQueue == buildCycleQueue(allCards, state.incorrectCardIds, nextCycle)
    IN  [state EXCEPT !.cycle = nextCycle,
                      !.cycleQueue = nextQueue]

startNextCycle(state, allCards) ==
    LET nextCycle == state.cycle + 1
        nextQueue == buildCycleQueue(allCards, state.incorrectCardIds, nextCycle)
    IN  [state EXCEPT !.cycle = nextCycle,
                      !.currentCardIndex = 0,
                      !.cycleQueue = nextQueue]

calculateCycle1Score(state) ==
    LET total == Cardinality(DOMAIN state.cycle1Answers)
        correct == Cardinality({k \in DOMAIN state.cycle1Answers : state.cycle1Answers[k]})
    IN  IF total = 0
        THEN [correct |-> 0, total |-> 0, percent |-> 0]
        ELSE [correct |-> correct, total |-> total,
              percent |-> MathRoundPercent(correct, total)]

----------------------------------------------------------------------------
(* sessionStats.ts *)

\* Mutant: every attempted card counts as right on the first try.
computeScores_FirstTryCountsAll(state) ==
    LET answers == state.cycle1Answers
        cycle1Attempted == Cardinality(DOMAIN answers)
        cycle1Correct == Cardinality(DOMAIN answers)
        attempted == Cardinality(DOMAIN answers)
        everCorrect ==
            Cardinality({k \in DOMAIN answers :
                            answers[k] \/ k \notin state.incorrectCardIds})
    IN  [rightOnFirstTry |->
            [correct |-> cycle1Correct,
             total |-> cycle1Attempted,
             percent |-> IF cycle1Attempted = 0 THEN 0
                         ELSE MathRoundPercent(cycle1Correct, cycle1Attempted)],
         overallScore |->
            [correct |-> everCorrect,
             total |-> attempted,
             percent |-> IF attempted = 0 THEN 0
                         ELSE MathRoundPercent(everCorrect, attempted)]]

\* Mutant: a card corrected in a later cycle does not count as ever correct.
computeScores_IgnoresRetry(state) ==
    LET answers == state.cycle1Answers
        cycle1Attempted == Cardinality(DOMAIN answers)
        cycle1Correct == Cardinality({k \in DOMAIN answers : answers[k]})
        attempted == Cardinality(DOMAIN answers)
        everCorrect == Cardinality({k \in DOMAIN answers : answers[k]})
    IN  [rightOnFirstTry |->
            [correct |-> cycle1Correct,
             total |-> cycle1Attempted,
             percent |-> IF cycle1Attempted = 0 THEN 0
                         ELSE MathRoundPercent(cycle1Correct, cycle1Attempted)],
         overallScore |->
            [correct |-> everCorrect,
             total |-> attempted,
             percent |-> IF attempted = 0 THEN 0
                         ELSE MathRoundPercent(everCorrect, attempted)]]

\* Mutant: the denominators are the size of the cycle queue.
computeScores_TotalIsQueue(state) ==
    LET answers == state.cycle1Answers
        cycle1Attempted == Len(state.cycleQueue)
        cycle1Correct == Cardinality({k \in DOMAIN answers : answers[k]})
        attempted == Len(state.cycleQueue)
        everCorrect ==
            Cardinality({k \in DOMAIN answers :
                            answers[k] \/ k \notin state.incorrectCardIds})
    IN  [rightOnFirstTry |->
            [correct |-> cycle1Correct,
             total |-> cycle1Attempted,
             percent |-> IF cycle1Attempted = 0 THEN 0
                         ELSE MathRoundPercent(cycle1Correct, cycle1Attempted)],
         overallScore |->
            [correct |-> everCorrect,
             total |-> attempted,
             percent |-> IF attempted = 0 THEN 0
                         ELSE MathRoundPercent(everCorrect, attempted)]]

\* Mutant: every attempted card counts as correct overall.
computeScores_AttemptedIsCorrect(state) ==
    LET answers == state.cycle1Answers
        cycle1Attempted == Cardinality(DOMAIN answers)
        cycle1Correct == Cardinality({k \in DOMAIN answers : answers[k]})
        attempted == Cardinality(DOMAIN answers)
        everCorrect == attempted
    IN  [rightOnFirstTry |->
            [correct |-> cycle1Correct,
             total |-> cycle1Attempted,
             percent |-> IF cycle1Attempted = 0 THEN 0
                         ELSE MathRoundPercent(cycle1Correct, cycle1Attempted)],
         overallScore |->
            [correct |-> everCorrect,
             total |-> attempted,
             percent |-> IF attempted = 0 THEN 0
                         ELSE MathRoundPercent(everCorrect, attempted)]]

computeScores(state) ==
    LET answers == state.cycle1Answers
        cycle1Attempted == Cardinality(DOMAIN answers)
        cycle1Correct == Cardinality({k \in DOMAIN answers : answers[k]})
        attempted == Cardinality(DOMAIN answers)
        everCorrect ==
            Cardinality({k \in DOMAIN answers :
                            answers[k] \/ k \notin state.incorrectCardIds})
    IN  [rightOnFirstTry |->
            [correct |-> cycle1Correct,
             total |-> cycle1Attempted,
             percent |-> IF cycle1Attempted = 0 THEN 0
                         ELSE MathRoundPercent(cycle1Correct, cycle1Attempted)],
         overallScore |->
            [correct |-> everCorrect,
             total |-> attempted,
             percent |-> IF attempted = 0 THEN 0
                         ELSE MathRoundPercent(everCorrect, attempted)]]

\* Mutant: a card still in the incorrect set counts as missed even when its
\* cycle-1 answer was correct.
classifyCardOutcome_MissedFirst(card, state) ==
    IF ~MapHas(state.cycle1Answers, card.uid) THEN "unattempted"
    ELSE IF card.uid \in state.incorrectCardIds THEN "missed"
    ELSE IF state.cycle1Answers[card.uid] = TRUE THEN "correct-first-time"
    ELSE "correct-on-retry"

\* Mutant: the two branches of the incorrect-set test are exchanged.
classifyCardOutcome_Swapped(card, state) ==
    IF ~MapHas(state.cycle1Answers, card.uid) THEN "unattempted"
    ELSE IF state.cycle1Answers[card.uid] = TRUE THEN "correct-first-time"
    ELSE IF card.uid \in state.incorrectCardIds THEN "correct-on-retry"
    ELSE "missed"

classifyCardOutcome(card, state) ==
    IF ~MapHas(state.cycle1Answers, card.uid) THEN "unattempted"
    ELSE IF state.cycle1Answers[card.uid] = TRUE THEN "correct-first-time"
    ELSE IF card.uid \in state.incorrectCardIds THEN "missed"
    ELSE "correct-on-retry"

\* The Map of card uid to outcome: a later card of the deck with the same uid
\* replaces the entry of an earlier one.
computeOutcomes(cards, state) ==
    [uid \in {cards[i].uid : i \in DOMAIN cards} |->
        LET last == CHOOSE i \in DOMAIN cards :
                        /\ cards[i].uid = uid
                        /\ \A j \in DOMAIN cards : cards[j].uid = uid => j <= i
        IN  classifyCardOutcome(cards[last], state)]

\* Mutant: unattempted cards are left out of the breakdown.
computeBreakdown_NoUnattempted(cards, state) ==
    LET outcomes == computeOutcomes(cards, state)
        Count(outcome) == Cardinality({uid \in DOMAIN outcomes : outcomes[uid] = outcome})
    IN  [correctFirstTime |-> Count("correct-first-time"),
         correctOnRetry |-> Count("correct-on-retry"),
         missed |-> Count("missed"),
         unattempted |-> 0]

\* Mutant: a card corrected on a retry is counted as missed as well.
computeBreakdown_RetryAlsoMissed(cards, state) ==
    LET outcomes == computeOutcomes(cards, state)
        Count(outcome) == Cardinality({uid \in DOMAIN outcomes : outcomes[uid] = outcome})
    IN  [correctFirstTime |-> Count("correct-first-time"),
         correctOnRetry |-> Count("correct-on-retry"),
         missed |-> Count("missed") + Count("correct-on-retry"),
         unattempted |-> Count("unattempted")]

computeBreakdown(cards, state) ==
    LET outcomes == computeOutcomes(cards, state)
        Count(outcome) == Cardinality({uid \in DOMAIN outcomes : outcomes[uid] = outcome})
    IN  [correctFirstTime |-> Count("correct-first-time"),
         correctOnRetry |-> Count("correct-on-retry"),
         missed |-> Count("missed"),
         unattempted |-> Count("unattempted")]

----------------------------------------------------------------------------
(* History *)

\* Nothing computed yet.
\* Mutant: the status is looked up under the card's id.
classifyCardStatus_ById(card, state) ==
    IF ~MapHas(state.cycle1Answers, card.id) THEN "unattempted"
    ELSE IF state.cycle1Answers[card.id] = TRUE THEN "correct-1st"
    ELSE IF card.id \in state.incorrectCardIds THEN "missed"
    ELSE "correct-retry"

\* DetailedResults.tsx: the status of a card in the per-card list.
classifyCardStatus(card, state) ==
    IF ~MapHas(state.cycle1Answers, card.uid) THEN "unattempted"
    ELSE IF state.cycle1Answers[card.uid] = TRUE THEN "correct-1st"
    ELSE IF card.uid \in state.incorrectCardIds THEN "missed"
    ELSE "correct-retry"

\* The other version of DetailedResults: the status is the outcome of
\* sessionStats under its CSS class name.
outcomeToStatus(outcome) ==
    CASE outcome = "correct-first-time" -> "correct-1st"
      [] outcome = "correct-on-retry" -> "correct-retry"
      [] outcome = "missed" -> "missed"
      [] outcome = "unattempted" -> "unattempted"

NoResults ==
    [shown |-> FALSE,
     scores |-> [rightOnFirstTry |-> [correct |-> 0, total |-> 0, percent |-> 0],
                 overallScore |-> [correct |-> 0, total |-> 0, percent |-> 0]],
     breakdown |-> [correctFirstTime |-> 0, correctOnRetry |-> 0,
                    missed |-> 0, unattempted |-> 0],
     outcomes |-> EmptyMap,
     statuses |-> EmptyMap]

Continue == [shouldAdvance |-> FALSE, shouldEnd |-> FALSE]
EndSession == [shouldAdvance |-> FALSE, shouldEnd |-> TRUE]
Advance == [shouldAdvance |-> TRUE, shouldEnd |-> FALSE]

\* op: the operation; cardId, wasCorrect, maxCycles: its arguments; pre: the
\* SessionState it was given; applied: applyAnswer's result inside
\* handleCardAnswer; decision: shouldAdvanceCycle's result inside it.
Op(op, cardId, wasCorrect, maxCycles, pre, applied, decision) ==
    [op |-> op, cardId |-> cardId, wasCorrect |-> wasCorrect,
     maxCycles |-> maxCycles, pre |-> pre, applied |-> applied,
     decision |-> decision, from |-> view]

NoOp ==
    [op |-> "none", cardId |-> "", wasCorrect |-> FALSE, maxCycles |-> 0,
     pre |-> NullSession, applied |-> NullSession, decision |-> Continue,
     from |-> "none"]

----------------------------------------------------------------------------
(* App.tsx: the views of one study session *)

StartSides == {"front", "back"}

\* The state of the components the App renders, and of a caller's heap.
componentVars == <<setupForm, isFlipped, heap, loader>>

\* SessionSetup's initial maxCycles.
DefaultMaxCycles == 4

\* SessionSetup's initial state.
DefaultForm == [startSide |-> "front", maxCycles |-> DefaultMaxCycles]

\* No object allocated, no call made.
NoHeap == [cells |-> <<>>, input |-> 0, output |-> 0, again |-> 0]
CycleOptions == MinCycles..MaxCyclesOption

\* The decks of the server: "a" is there from the start, "b" is the deck the
\* create-deck view creates. "null" is null.
DeckIds == {"a", "b"}
CreatedDeckId == "b"

\* The cards getDeck returns for a deck.
CardsOfDeck(deckId) ==
    IF deckId = "a" THEN DeckOf(1)
    ELSE IF deckId = "b" THEN DeckOf(MaxEngineDeckLen)
    ELSE <<>>

\* The requests: getDecks(), and getDeck(deckId) named by its deckId.
Requests == {"getDecks"} \cup DeckIds

\* No deck selected, no list loaded, no request in flight.
NoLoader ==
    [selectedDeckId |-> "null", selectedDeck |-> "null", loading |-> FALSE,
     decks |-> {}, created |-> FALSE, pending |-> [r \in Requests |-> 0]]

Init ==
    /\ view = "detail"
    /\ deckCards \in Decks
    /\ sessionState = NullSession
    /\ sessionOptions = NullOptions
    /\ error = "null"
    /\ showEndSessionConfirm = FALSE
    /\ keyField = "uid"
    /\ lastOp = NoOp
    /\ results = NoResults
    /\ setupForm = DefaultForm
    /\ isFlipped = FALSE
    /\ heap = NoHeap
    /\ loader = NoLoader

\* Mutant: the handler opens the setup view without looking at the deck.
handleStartStudy_NoEmptyCheck ==
    /\ view = "detail"
    /\ view' = "setup"
    /\ error' = error
    /\ lastOp' = Op("handleStartStudy", "", FALSE, 0, NullSession, NullSession, Continue)
    /\ UNCHANGED <<deckCards, sessionState, sessionOptions,
                   showEndSessionConfirm, keyField, results>>

\* The handler of a request to start studying the selected deck.
handleStartStudy ==
    /\ view = "detail"
    /\ IF Len(deckCards) = 0
       THEN /\ error' = "This deck has no cards to study."
            /\ view' = view
       ELSE /\ view' = "setup"
            /\ error' = error
    /\ lastOp' = Op("handleStartStudy", "", FALSE, 0, NullSession, NullSession, Continue)
    /\ UNCHANGED <<deckCards, sessionState, sessionOptions,
                   showEndSessionConfirm, keyField, results>>

\* The Start Study Session button is rendered for a loaded, non-empty deck.
HandleStartStudy ==
    /\ error = "null"
    /\ Len(deckCards) # 0
    /\ handleStartStudy
    /\ UNCHANGED componentVars

\* onStart({startSide, maxCycles}); initSession is declared with one
\* parameter, so the second argument of the call is dropped.
handleSetupStart(options) ==
    /\ view = "setup"
    /\ sessionOptions' = options
    /\ sessionState' = initSession(deckCards)
    /\ view' = "study"
    /\ lastOp' = Op("initSession", "", FALSE, options.maxCycles,
                    NullSession, NullSession, Continue)
    /\ UNCHANGED <<deckCards, error, showEndSessionConfirm, keyField, results>>

\* The setup form submitted with some options.
HandleSetupStart(options) ==
    /\ handleSetupStart(options)
    /\ UNCHANGED componentVars

HandleSetupCancel ==
    /\ view = "setup"
    /\ view' = "detail"
    /\ sessionOptions' = NullOptions
    /\ lastOp' = NoOp
    /\ UNCHANGED <<deckCards, sessionState, error, showEndSessionConfirm, keyField, results, componentVars>>

\* CardView is rendered, and so can swipe, only while the study view has a
\* current card.
handleCardAnswer(wasCorrect) ==
    /\ view = "study"
    /\ sessionState # NullSession
    /\ sessionState.currentCardIndex + 1 \in DOMAIN sessionState.cycleQueue
    /\ LET currentCard == sessionState.cycleQueue[sessionState.currentCardIndex + 1]
           newState == applyAnswer(sessionState, currentCard.uid, wasCorrect)
           decision == shouldAdvanceCycle(newState, deckCards)
       IN  /\ IF decision.shouldEnd
              THEN /\ sessionState' = newState
                   /\ view' = "results"
              ELSE IF decision.shouldAdvance
              THEN /\ sessionState' = startNextCycle(newState, deckCards)
                   /\ view' = view
              ELSE /\ sessionState' = newState
                   /\ view' = view
           /\ lastOp' = Op("handleCardAnswer", currentCard.uid, wasCorrect, 0,
                           sessionState, newState, decision)
    /\ UNCHANGED <<deckCards, sessionOptions, error, showEndSessionConfirm, keyField, results>>

\* A swipe that CardView passes on.
HandleCardAnswer(wasCorrect) ==
    /\ handleCardAnswer(wasCorrect)
    /\ UNCHANGED componentVars

\* The End Session button is part of the study view with a current card.
HandleEndSessionClick ==
    /\ view = "study"
    /\ sessionState.currentCardIndex + 1 \in DOMAIN sessionState.cycleQueue
    /\ ~showEndSessionConfirm
    /\ showEndSessionConfirm' = TRUE
    /\ lastOp' = NoOp
    /\ UNCHANGED <<view, deckCards, sessionState, sessionOptions, error, keyField, results, componentVars>>

HandleEndSessionConfirm ==
    /\ view = "study"
    /\ showEndSessionConfirm
    /\ showEndSessionConfirm' = FALSE
    /\ view' = IF sessionState # NullSession THEN "results" ELSE view
    /\ lastOp' = NoOp
    /\ UNCHANGED <<deckCards, sessionState, sessionOptions, error, keyField, results, componentVars>>

HandleEndSessionCancel ==
    /\ view = "study"
    /\ showEndSessionConfirm
    /\ showEndSessionConfirm' = FALSE
    /\ lastOp' = NoOp
    /\ UNCHANGED <<view, deckCards, sessionState, sessionOptions, error, keyField, results, componentVars>>

HandleShowDetailedResults ==
    /\ view = "results"
    /\ view' = "detailed-results"
    /\ lastOp' = NoOp
    /\ results' = NoResults
    /\ UNCHANGED <<deckCards, sessionState, sessionOptions, error,
                   showEndSessionConfirm, keyField, componentVars>>

\* Mutant: Back leaves the session state in place.
HandleBack_KeepsSession ==
    /\ view \in {"detail", "setup", "detailed-results", "study", "results"}
    /\ IF view = "detail"
       THEN /\ view' = "list"
            /\ deckCards' = <<>>
            /\ UNCHANGED <<sessionState, sessionOptions>>
       ELSE IF view = "setup"
       THEN /\ view' = "detail"
            /\ sessionOptions' = NullOptions
            /\ UNCHANGED <<sessionState, deckCards>>
       ELSE IF view = "detailed-results"
       THEN /\ view' = "results"
            /\ UNCHANGED <<sessionState, sessionOptions, deckCards>>
       ELSE /\ view' = "detail"
            /\ sessionOptions' = NullOptions
            /\ UNCHANGED <<sessionState, deckCards>>
    /\ lastOp' = Op("handleBack", "", FALSE, 0, NullSession, NullSession, Continue)
    /\ results' = NoResults
    /\ UNCHANGED <<error, showEndSessionConfirm, keyField, componentVars>>

\* Back: from detail to the deck list (no deck selected), from the views of a
\* session towards detail.
HandleBack ==
    /\ view \in {"detail", "setup", "detailed-results", "study", "results"}
    /\ IF view = "detail"
       THEN /\ view' = "list"
            /\ deckCards' = <<>>
            /\ UNCHANGED <<sessionState, sessionOptions>>
       ELSE IF view = "setup"
       THEN /\ view' = "detail"
            /\ sessionOptions' = NullOptions
            /\ UNCHANGED <<sessionState, deckCards>>
       ELSE IF view = "detailed-results"
       THEN /\ view' = "results"
            /\ UNCHANGED <<sessionState, sessionOptions, deckCards>>
       ELSE /\ view' = "detail"
            /\ sessionState' = NullSession
            /\ sessionOptions' = NullOptions
            /\ UNCHANGED deckCards
    /\ lastOp' = Op("handleBack", "", FALSE, 0, NullSession, NullSession, Continue)
    /\ results' = NoResults
    /\ UNCHANGED <<error, showEndSessionConfirm, keyField, componentVars>>

\* Finished, on the results view: to the deck list, session and deck dropped;
\* sessionOptions is not touched.
HandleFinish ==
    /\ view = "results"
    /\ view' = "list"
    /\ sessionState' = NullSession
    /\ deckCards' = <<>>
    /\ lastOp' = Op("handleFinish", "", FALSE, 0, NullSession, NullSession, Continue)
    /\ results' = NoResults
    /\ UNCHANGED <<sessionOptions, error, showEndSessionConfirm, keyField, componentVars>>

\* A deck chosen on the list, shown once getDeck has delivered it: the effect
\* clears the error.
HandleDeckSelect(cards) ==
    /\ view = "list"
    /\ view' = "detail"
    /\ deckCards' = cards
    /\ error' = "null"
    /\ lastOp' = NoOp
    /\ UNCHANGED <<sessionState, sessionOptions, showEndSessionConfirm,
                   keyField, results, componentVars>>

\* What the results view computes when it renders, and the per-card outcomes
\* behind the breakdown. The values are locals of one render: they are gone
\* once another view is shown.
RenderResults ==
    LET computed == [shown |-> TRUE,
                     scores |-> computeScores(sessionState),
                     breakdown |-> computeBreakdown(deckCards, sessionState),
                     outcomes |-> computeOutcomes(deckCards, sessionState),
                     statuses |-> EmptyMap]
    IN  /\ view = "results"
        /\ sessionState # NullSession
        /\ results # computed
        /\ results' = computed
        /\ UNCHANGED <<view, deckCards, sessionState, sessionOptions, error,
                       showEndSessionConfirm, keyField, lastOp, componentVars>>

\* The detailed results view is rendered: deck.cards.map gives every card of
\* the deck its status.
RenderDetailedResults ==
    LET computed == [NoResults EXCEPT
                        !.shown = TRUE,
                        !.statuses = [i \in DOMAIN deckCards |->
                                         classifyCardStatus(deckCards[i], sessionState)]]
    IN  /\ view = "detailed-results"
        /\ sessionState # NullSession
        /\ sessionOptions # NullOptions
        /\ results # computed
        /\ results' = computed
        /\ UNCHANGED <<view, deckCards, sessionState, sessionOptions, error,
                       showEndSessionConfirm, keyField, lastOp, componentVars>>

Next ==
    \/ HandleStartStudy
    \/ \E side \in StartSides, m \in CycleOptions :
          HandleSetupStart([startSide |-> side, maxCycles |-> m])
    \/ HandleSetupCancel
    \/ \E wasCorrect \in BOOLEAN : HandleCardAnswer(wasCorrect)
    \/ HandleEndSessionClick
    \/ HandleEndSessionConfirm
    \/ HandleEndSessionCancel
    \/ RenderResults
    \/ HandleShowDetailedResults
    \/ HandleBack
    \/ HandleFinish
    \/ \E cards \in Decks : HandleDeckSelect(cards)

Spec == Init /\ [][Next]_vars

\* The user answers every card that is presented: a swipe that stays possible
\* is eventually made.
SpecAnswering ==
    Init /\ [][Next]_vars /\ WF_vars(\E wasCorrect \in BOOLEAN : HandleCardAnswer(wasCorrect))

\* handleStartStudy requested for whatever deck is selected, without the
\* button that the detail view renders for non-empty decks only.
StartStudyRequest ==
    /\ handleStartStudy
    /\ UNCHANGED componentVars

NextRequests ==
    \/ Next
    \/ StartStudyRequest

SpecRequests == Init /\ [][NextRequests]_vars

----------------------------------------------------------------------------
(* The engine's functions called directly *)

InitEngine ==
    /\ view = "engine"
    /\ deckCards \in EngineDecks
    /\ sessionState = NullSession
    /\ sessionOptions = NullOptions
    /\ error = "null"
    /\ showEndSessionConfirm = FALSE
    /\ keyField \in {"id", "uid"}
    /\ lastOp = NoOp
    /\ results = NoResults
    /\ setupForm = DefaultForm
    /\ isFlipped = FALSE
    /\ heap = NoHeap
    /\ loader = NoLoader

EngineInitSession(maxCycles) ==
    /\ sessionState = NullSession
    /\ sessionState' = initSession(deckCards)
    /\ lastOp' = Op("initSession", "", FALSE, maxCycles,
                    NullSession, NullSession, Continue)
    /\ UNCHANGED <<view, deckCards, sessionOptions, error,
                   showEndSessionConfirm, keyField, results, componentVars>>

\* An answer is submitted while the cycle has a card left; the caller names
\* any card of the deck.
EngineApplyAnswer(cardId, wasCorrect) ==
    /\ sessionState # NullSession
    /\ shouldAdvanceCycle(sessionState, deckCards) = Continue
    /\ cardId \in KeysOf(deckCards, keyField)
    /\ sessionState' = applyAnswer(sessionState, cardId, wasCorrect)
    /\ lastOp' = Op("applyAnswer", cardId, wasCorrect, 0,
                    sessionState, NullSession, Continue)
    /\ UNCHANGED <<view, deckCards, sessionOptions, error,
                   showEndSessionConfirm, keyField, results, componentVars>>

\* startNextCycle is called only when shouldAdvanceCycle returned shouldAdvance.
EngineStartNextCycle ==
    /\ sessionState # NullSession
    /\ shouldAdvanceCycle(sessionState, deckCards).shouldAdvance
    /\ sessionState' = startNextCycle(sessionState, deckCards)
    /\ lastOp' = Op("startNextCycle", "", FALSE, 0,
                    sessionState, NullSession, Continue)
    /\ UNCHANGED <<view, deckCards, sessionOptions, error,
                   showEndSessionConfirm, keyField, results, componentVars>>

NextEngine ==
    \/ \E m \in CycleOptions : EngineInitSession(m)
    \/ \E cardId \in AllKeys, wasCorrect \in BOOLEAN :
          EngineApplyAnswer(cardId, wasCorrect)
    \/ EngineStartNextCycle

SpecEngine == InitEngine /\ [][NextEngine]_vars

----------------------------------------------------------------------------
(* The scoring module applied to a session state *)

\* Every SessionState over the uids of the cards c1 .. cMaxEngineDeckLen: any
\* set of them incorrect, any of them with a cycle-1 answer. The fields the
\* scoring module does not read are those of a finished first cycle.
\* A caller of session.ts and sessionStats.ts that records answers under the
\* uid of the current card, as handleCardAnswer, and asks shouldAdvanceCycle
\* before every step.
InitClient ==
    /\ view = "engine"
    /\ deckCards \in EngineDecks \ {<<>>}
    /\ sessionState = NullSession
    /\ sessionOptions = NullOptions
    /\ error = "null"
    /\ showEndSessionConfirm = FALSE
    /\ keyField = "uid"
    /\ lastOp = NoOp
    /\ results = NoResults
    /\ setupForm = DefaultForm
    /\ isFlipped = FALSE
    /\ heap = NoHeap
    /\ loader = NoLoader

ClientStartSession(options) ==
    /\ view = "engine"
    /\ sessionState = NullSession
    /\ sessionOptions' = options
    /\ sessionState' = initSession(deckCards)
    /\ lastOp' = Op("initSession", "", FALSE, options.maxCycles,
                    NullSession, NullSession, Continue)
    /\ UNCHANGED <<view, deckCards, error, showEndSessionConfirm, keyField,
                   results, componentVars>>

\* applyAnswer on the current card.
ClientCardAnswer(wasCorrect) ==
    /\ view = "engine"
    /\ sessionState # NullSession
    /\ shouldAdvanceCycle(sessionState, deckCards) = Continue
    /\ LET currentCard == sessionState.cycleQueue[sessionState.currentCardIndex + 1]
       IN  /\ sessionState' = applyAnswer(sessionState, currentCard.uid, wasCorrect)
           /\ lastOp' = Op("applyAnswer", currentCard.uid, wasCorrect, 0,
                           sessionState, NullSession, Continue)
    /\ UNCHANGED <<view, deckCards, sessionOptions, error,
                   showEndSessionConfirm, keyField, results, componentVars>>

ClientStartNextCycle ==
    /\ view = "engine"
    /\ EngineStartNextCycle

\* shouldEnd: the results are shown.
ClientShowResults ==
    /\ view = "engine"
    /\ sessionState # NullSession
    /\ shouldAdvanceCycle(sessionState, deckCards).shouldEnd
    /\ view' = "results"
    /\ lastOp' = Op("shouldEnd", "", FALSE, 0, sessionState, NullSession,
                    shouldAdvanceCycle(sessionState, deckCards))
    /\ UNCHANGED <<deckCards, sessionState, sessionOptions, error,
                   showEndSessionConfirm, keyField, results, componentVars>>

NextClient ==
    \/ \E options \in [startSide : StartSides, maxCycles : CycleOptions] :
          ClientStartSession(options)
    \/ \E wasCorrect \in BOOLEAN : ClientCardAnswer(wasCorrect)
    \/ ClientStartNextCycle
    \/ ClientShowResults
    \/ RenderResults

SpecClient == InitClient /\ [][NextClient]_vars

ScoringUids == {Card(n).uid : n \in 1..MaxEngineDeckLen}

ScoringStates(cards) ==
    {[cycle |-> 1,
      currentCardIndex |-> Len(cards),
      cycleQueue |-> cards,
      incorrectCardIds |-> incorrect,
      cycle1Answers |-> answers] :
        incorrect \in SUBSET ScoringUids,
        answers \in UNION {[attempted -> BOOLEAN] : attempted \in SUBSET ScoringUids}}

InitScoring ==
    /\ view = "results"
    /\ deckCards \in EngineDecks
    /\ sessionState \in ScoringStates(deckCards)
    /\ sessionOptions = NullOptions
    /\ error = "null"
    /\ showEndSessionConfirm = FALSE
    /\ keyField = "uid"
    /\ lastOp = NoOp
    /\ results = NoResults
    /\ setupForm = DefaultForm
    /\ isFlipped = FALSE
    /\ heap = NoHeap
    /\ loader = NoLoader

NextScoring == RenderResults

SpecScoring == InitScoring /\ [][NextScoring]_vars

\* Largest number of cycle-1 answers of the rounding cases.
MaxAnswers == 40

\* A session over DeckOf(total) that ended with the first `correct` cards
\* answered correctly in cycle 1 and the others still incorrect.
\* The two results views over every deck and every session state.
InitDetailed ==
    /\ view \in {"results", "detailed-results"}
    /\ deckCards \in EngineDecks
    /\ sessionState \in ScoringStates(deckCards)
    /\ sessionOptions = [startSide |-> DefaultForm.startSide,
                         maxCycles |-> DefaultForm.maxCycles]
    /\ error = "null"
    /\ showEndSessionConfirm = FALSE
    /\ keyField = "uid"
    /\ lastOp = NoOp
    /\ results = NoResults
    /\ setupForm = DefaultForm
    /\ isFlipped = FALSE
    /\ heap = NoHeap
    /\ loader = NoLoader

NextDetailed ==
    \/ RenderResults
    \/ RenderDetailedResults

SpecDetailed == InitDetailed /\ [][NextDetailed]_vars

StateWithScore(correct, total) ==
    [cycle |-> 1,
     currentCardIndex |-> total,
     cycleQueue |-> DeckOf(total),
     incorrectCardIds |-> {Card(i).uid : i \in (correct + 1)..total},
     cycle1Answers |-> [uid \in {Card(i).uid : i \in 1..total} |->
                           \E i \in 1..correct : uid = Card(i).uid]]

InitRounding ==
    /\ view = "results"
    /\ \E total \in 1..MaxAnswers, correct \in 0..MaxAnswers :
          /\ correct <= total
          /\ deckCards = DeckOf(total)
          /\ sessionState = StateWithScore(correct, total)
    /\ sessionOptions = NullOptions
    /\ error = "null"
    /\ showEndSessionConfirm = FALSE
    /\ keyField = "uid"
    /\ lastOp = NoOp
    /\ results = NoResults
    /\ setupForm = DefaultForm
    /\ isFlipped = FALSE
    /\ heap = NoHeap
    /\ loader = NoLoader

SpecRounding == InitRounding /\ [][NextScoring]_vars

----------------------------------------------------------------------------
(* SessionSetup: the form that chooses startSide and maxCycles *)

\* Longest text typed into the Max Cycles input.
MaxTextLen == 2

\* The characters typed into it.
SetupChars == {"0", "1", "6", "7", " ", "-", "."}

SetupTexts == UNION {[1..n -> SetupChars] : n \in 0..MaxTextLen}

\* History of a change to the form: the number that was read, and the
\* maxCycles the form held before.
FormOp(op, value) ==
    [op |-> op, value |-> value, previous |-> setupForm.maxCycles, from |-> view]

\* Mutant: the typed number is stored without the range test.
ChangeMaxCycles_NoRangeTest(text) ==
    LET value == parseInt(text)
    IN  /\ view = "setup"
        /\ setupForm' = [setupForm EXCEPT !.maxCycles = value.value]
        /\ lastOp' = FormOp("changeMaxCycles", value)
        /\ UNCHANGED <<view, deckCards, sessionState, sessionOptions, error,
                       showEndSessionConfirm, keyField, results, isFlipped, heap, loader>>

\* onChange of the Max Cycles number input.
ChangeMaxCycles(text) ==
    LET value == parseInt(text)
    IN  /\ view = "setup"
        /\ setupForm' = IF InRange(value, MinCycles, MaxCyclesOption)
                        THEN [setupForm EXCEPT !.maxCycles = value.value]
                        ELSE setupForm
        /\ lastOp' = FormOp("changeMaxCycles", value)
        /\ UNCHANGED <<view, deckCards, sessionState, sessionOptions, error,
                       showEndSessionConfirm, keyField, results, isFlipped, heap, loader>>

\* The - button of the cycle selector, disabled at the lower end.
DecrementMaxCycles ==
    /\ view = "setup"
    /\ ~(setupForm.maxCycles <= MinCycles)
    /\ setupForm' = [setupForm EXCEPT !.maxCycles = MathMax(MinCycles, setupForm.maxCycles - 1)]
    /\ lastOp' = FormOp("decrementMaxCycles", NaN)
    /\ UNCHANGED <<view, deckCards, sessionState, sessionOptions, error,
                   showEndSessionConfirm, keyField, results, isFlipped, heap, loader>>

\* The + button of the cycle selector, disabled at the upper end.
IncrementMaxCycles ==
    /\ view = "setup"
    /\ ~(setupForm.maxCycles >= MaxCyclesOption)
    /\ setupForm' = [setupForm EXCEPT !.maxCycles = MathMin(MaxCyclesOption, setupForm.maxCycles + 1)]
    /\ lastOp' = FormOp("incrementMaxCycles", NaN)
    /\ UNCHANGED <<view, deckCards, sessionState, sessionOptions, error,
                   showEndSessionConfirm, keyField, results, isFlipped, heap, loader>>

\* The Start Side radio buttons (or toggle).
SetStartSide(side) ==
    /\ view = "setup"
    /\ setupForm' = [setupForm EXCEPT !.startSide = side]
    /\ lastOp' = FormOp("setStartSide", NaN)
    /\ UNCHANGED <<view, deckCards, sessionState, sessionOptions, error,
                   showEndSessionConfirm, keyField, results, isFlipped, heap, loader>>

\* handleSubmit: onStart({startSide, maxCycles}) with the form's state.
SubmitSetup ==
    /\ handleSetupStart(setupForm)
    /\ UNCHANGED componentVars

\* The setup view as handleStartStudy opens it for a deck with cards, the
\* form freshly mounted.
InitSetup ==
    /\ view = "setup"
    /\ deckCards = DeckOf(MaxEngineDeckLen)
    /\ sessionState = NullSession
    /\ sessionOptions = NullOptions
    /\ error = "null"
    /\ showEndSessionConfirm = FALSE
    /\ keyField = "uid"
    /\ lastOp = NoOp
    /\ results = NoResults
    /\ setupForm = DefaultForm
    /\ isFlipped = FALSE
    /\ heap = NoHeap
    /\ loader = NoLoader

NextSetup ==
    \/ \E text \in SetupTexts : ChangeMaxCycles(text)
    \/ DecrementMaxCycles
    \/ IncrementMaxCycles
    \/ \E side \in StartSides : SetStartSide(side)
    \/ SubmitSetup

SpecSetup == InitSetup /\ [][NextSetup]_vars

----------------------------------------------------------------------------
(* CardView: the card of the study view, flipped by a tap, judged by a swipe *)

\* CardView is mounted while the study view has a current card.
CardShown(v, state) ==
    /\ v = "study"
    /\ state # NullSession
    /\ state.currentCardIndex + 1 \in DOMAIN state.cycleQueue

\* The startSide prop: sessionOptions?.startSide || 'front'.
StartSideProp ==
    IF sessionOptions = NullOptions THEN "front" ELSE sessionOptions.startSide

\* const isScoringSide of CardView.
isScoringSide ==
    \/ StartSideProp = "front" /\ isFlipped
    \/ StartSideProp = "back" /\ ~isFlipped

\* The session starts and CardView mounts with useState(startSide === 'back').
CardSetupStart(options) ==
    /\ handleSetupStart(options)
    /\ isFlipped' = (options.startSide = "back")
    /\ UNCHANGED <<setupForm, heap, loader>>

\* handlePointerUp for a pointer that did not move: the card is flipped and
\* onTap (which does nothing in App) is called.
PointerUpTap ==
    /\ CardShown(view, sessionState)
    /\ isFlipped' = ~isFlipped
    /\ lastOp' = Op("tap", "", FALSE, 0, sessionState, sessionState, Continue)
    /\ UNCHANGED <<view, deckCards, sessionState, sessionOptions, error,
                   showEndSessionConfirm, keyField, results, setupForm, heap, loader>>

\* Mutant: a swipe is passed on whatever side is showing.
PointerUpSwipe_AnySide(direction) ==
    /\ CardShown(view, sessionState)
    /\ handleCardAnswer(direction = "right")
    /\ LET card == sessionState.cycleQueue[sessionState.currentCardIndex + 1]
           same == /\ CardShown(view', sessionState')
                   /\ sessionState'.cycleQueue[sessionState'.currentCardIndex + 1].uid = card.uid
       IN  isFlipped' = IF same THEN isFlipped ELSE (StartSideProp = "back")
    /\ UNCHANGED <<setupForm, heap, loader>>

\* handlePointerUp for a horizontal move beyond the swipe threshold: onSwipe
\* on the scoring side, nothing otherwise. When the swipe brings another
\* card, the effect on card.uid resets isFlipped.
PointerUpSwipe(direction) ==
    /\ CardShown(view, sessionState)
    /\ IF isScoringSide
       THEN /\ handleCardAnswer(direction = "right")
            /\ LET card == sessionState.cycleQueue[sessionState.currentCardIndex + 1]
                   same == /\ CardShown(view', sessionState')
                           /\ sessionState'.cycleQueue[sessionState'.currentCardIndex + 1].uid
                                 = card.uid
               IN  isFlipped' = IF same THEN isFlipped ELSE (StartSideProp = "back")
            /\ UNCHANGED <<setupForm, heap, loader>>
       ELSE /\ lastOp' = Op("swipeIgnored", "", direction = "right", 0,
                            sessionState, sessionState, Continue)
            /\ UNCHANGED <<view, deckCards, sessionState, sessionOptions, error,
                           showEndSessionConfirm, keyField, results, componentVars>>

InitCard ==
    /\ view = "detail"
    /\ deckCards \in EngineDecks
    /\ sessionState = NullSession
    /\ sessionOptions = NullOptions
    /\ error = "null"
    /\ showEndSessionConfirm = FALSE
    /\ keyField = "uid"
    /\ lastOp = NoOp
    /\ results = NoResults
    /\ setupForm = DefaultForm
    /\ isFlipped = FALSE
    /\ heap = NoHeap
    /\ loader = NoLoader

NextCard ==
    \/ HandleStartStudy
    \/ \E side \in StartSides, m \in CycleOptions :
          CardSetupStart([startSide |-> side, maxCycles |-> m])
    \/ PointerUpTap
    \/ \E direction \in {"left", "right"} : PointerUpSwipe(direction)
    \/ HandleBack

SpecCard == InitCard /\ [][NextCard]_vars

\* CardView under a parent that records the answer under the key keyField
\* names: the uid as App does, or the id that buildCycleQueue compares with.
onSwipeKeyed(wasCorrect) ==
    /\ view = "study"
    /\ sessionState # NullSession
    /\ sessionState.currentCardIndex + 1 \in DOMAIN sessionState.cycleQueue
    /\ LET currentCard == sessionState.cycleQueue[sessionState.currentCardIndex + 1]
           cardId == IF keyField = "id" THEN currentCard.id ELSE currentCard.uid
           newState == applyAnswer(sessionState, cardId, wasCorrect)
           decision == shouldAdvanceCycle(newState, deckCards)
       IN  /\ IF decision.shouldEnd
              THEN /\ sessionState' = newState
                   /\ view' = "results"
              ELSE IF decision.shouldAdvance
              THEN /\ sessionState' = startNextCycle(newState, deckCards)
                   /\ view' = view
              ELSE /\ sessionState' = newState
                   /\ view' = view
           /\ lastOp' = Op("onSwipe", cardId, wasCorrect, 0,
                           sessionState, newState, decision)
    /\ UNCHANGED <<deckCards, sessionOptions, error, showEndSessionConfirm, keyField, results>>

\* handlePointerUp for a swipe, with that parent: the effect on card.uid
\* runs only when the card now presented has another uid.
PointerUpSwipeKeyed(direction) ==
    /\ CardShown(view, sessionState)
    /\ IF isScoringSide
       THEN /\ onSwipeKeyed(direction = "right")
            /\ LET card == sessionState.cycleQueue[sessionState.currentCardIndex + 1]
                   same == /\ CardShown(view', sessionState')
                           /\ sessionState'.cycleQueue[sessionState'.currentCardIndex + 1].uid
                                 = card.uid
               IN  isFlipped' = IF same THEN isFlipped ELSE (StartSideProp = "back")
            /\ UNCHANGED <<setupForm, heap, loader>>
       ELSE /\ lastOp' = Op("swipeIgnored", "", direction = "right", 0,
                            sessionState, sessionState, Continue)
            /\ UNCHANGED <<view, deckCards, sessionState, sessionOptions, error,
                           showEndSessionConfirm, keyField, results, componentVars>>

InitCardKeyed ==
    /\ view = "detail"
    /\ deckCards \in EngineDecks
    /\ sessionState = NullSession
    /\ sessionOptions = NullOptions
    /\ error = "null"
    /\ showEndSessionConfirm = FALSE
    /\ keyField \in {"id", "uid"}
    /\ lastOp = NoOp
    /\ results = NoResults
    /\ setupForm = DefaultForm
    /\ isFlipped = FALSE
    /\ heap = NoHeap
    /\ loader = NoLoader

NextCardKeyed ==
    \/ HandleStartStudy
    \/ \E side \in StartSides, m \in CycleOptions :
          CardSetupStart([startSide |-> side, maxCycles |-> m])
    \/ PointerUpTap
    \/ \E direction \in {"left", "right"} : PointerUpSwipeKeyed(direction)
    \/ HandleBack

SpecCardKeyed == InitCardKeyed /\ [][NextCardKeyed]_vars

\* At most this many requests are in flight.
MaxInFlight == 2

InFlight == loader.pending["getDecks"] + loader.pending["a"] + loader.pending["b"]

\* refreshDeckList up to the call of getDecks (setError(null) is in the
\* actions).
refreshDeckList(l) ==
    [l EXCEPT !.loading = TRUE, !.pending["getDecks"] = @ + 1]

\* The effect on [view, selectedDeckId] in the detail view, up to the call of
\* getDeck.
loadDeckDetails(l) ==
    [l EXCEPT !.loading = TRUE, !.pending[l.selectedDeckId] = @ + 1]

\* The decks getDecks returns.
ServerDecks == IF loader.created THEN DeckIds ELSE DeckIds \ {CreatedDeckId}

LoadOp(op) ==
    Op(op, "", FALSE, 0, NullSession, NullSession, Continue)

LoadingFrame ==
    UNCHANGED <<sessionState, sessionOptions, showEndSessionConfirm, keyField,
                results, setupForm, isFlipped, heap>>

\* App is mounted: the list view, loading, and the effect on [view] has
\* called refreshDeckList.
InitLoading ==
    /\ view = "list"
    /\ deckCards = <<>>
    /\ sessionState = NullSession
    /\ sessionOptions = NullOptions
    /\ error = "null"
    /\ showEndSessionConfirm = FALSE
    /\ keyField = "uid"
    /\ lastOp = NoOp
    /\ results = NoResults
    /\ setupForm = DefaultForm
    /\ isFlipped = FALSE
    /\ heap = NoHeap
    /\ loader = refreshDeckList(NoLoader)

\* getDecks().then
GetDecksResolved ==
    /\ loader.pending["getDecks"] > 0
    /\ loader' = [loader EXCEPT !.decks = ServerDecks,
                                !.loading = FALSE,
                                !.pending["getDecks"] = @ - 1]
    /\ lastOp' = LoadOp("getDecks.then")
    /\ UNCHANGED <<view, deckCards, error>>
    /\ LoadingFrame

\* getDecks().catch
GetDecksRejected ==
    /\ loader.pending["getDecks"] > 0
    /\ loader' = [loader EXCEPT !.loading = FALSE,
                                !.pending["getDecks"] = @ - 1]
    /\ error' = "Failed to fetch"
    /\ lastOp' = LoadOp("getDecks.catch")
    /\ UNCHANGED <<view, deckCards>>
    /\ LoadingFrame

\* getDeck(deckId).then
GetDeckResolved(deckId) ==
    /\ loader.pending[deckId] > 0
    /\ loader' = [loader EXCEPT !.selectedDeck = deckId,
                                !.loading = FALSE,
                                !.pending[deckId] = @ - 1]
    /\ deckCards' = CardsOfDeck(deckId)
    /\ lastOp' = LoadOp("getDeck.then")
    /\ UNCHANGED <<view, error>>
    /\ LoadingFrame

\* getDeck(deckId).catch
GetDeckRejected(deckId) ==
    /\ loader.pending[deckId] > 0
    /\ loader' = [loader EXCEPT !.loading = FALSE,
                                !.pending[deckId] = @ - 1]
    /\ error' = "Failed to fetch"
    /\ lastOp' = LoadOp("getDeck.catch")
    /\ UNCHANGED <<view, deckCards>>
    /\ LoadingFrame

\* A deck of the list is clicked: handleDeckSelect, then the effect of the
\* detail view.
LoadingDeckSelect(deckId) ==
    /\ view = "list"
    /\ ~loader.loading
    /\ error = "null"
    /\ deckId \in loader.decks
    /\ InFlight < MaxInFlight
    /\ view' = "detail"
    /\ loader' = loadDeckDetails([loader EXCEPT !.selectedDeckId = deckId])
    /\ error' = "null"
    /\ lastOp' = LoadOp("handleDeckSelect")
    /\ UNCHANGED deckCards
    /\ LoadingFrame

\* Back in the detail view: handleBack, then the effect of the list view.
LoadingBack ==
    /\ view = "detail"
    /\ InFlight < MaxInFlight
    /\ view' = "list"
    /\ loader' = refreshDeckList([loader EXCEPT !.selectedDeckId = "null",
                                                !.selectedDeck = "null"])
    /\ deckCards' = <<>>
    /\ error' = "null"
    /\ lastOp' = LoadOp("handleBack")
    /\ LoadingFrame

\* + Create Deck
LoadingCreateDeck ==
    /\ view = "list"
    /\ ~loader.loading
    /\ error = "null"
    /\ ~loader.created
    /\ view' = "create-deck"
    /\ lastOp' = LoadOp("handleCreateDeck")
    /\ UNCHANGED <<deckCards, error, loader>>
    /\ LoadingFrame

\* handleCreateDeckCancel, then the effect of the list view.
LoadingCreateDeckCancel ==
    /\ view = "create-deck"
    /\ InFlight < MaxInFlight
    /\ view' = "list"
    /\ loader' = refreshDeckList(loader)
    /\ error' = "null"
    /\ lastOp' = LoadOp("handleCreateDeckCancel")
    /\ UNCHANGED deckCards
    /\ LoadingFrame

\* handleCreateDeckSuccess(deck): refreshDeckList, the new deck selected and
\* held, then the effect of the detail view.
LoadingCreateDeckSuccess ==
    /\ view = "create-deck"
    /\ InFlight + 2 <= MaxInFlight
    /\ view' = "detail"
    /\ loader' = loadDeckDetails(refreshDeckList(
                    [loader EXCEPT !.created = TRUE,
                                   !.selectedDeckId = CreatedDeckId,
                                   !.selectedDeck = CreatedDeckId]))
    /\ deckCards' = CardsOfDeck(CreatedDeckId)
    /\ error' = "null"
    /\ lastOp' = LoadOp("handleCreateDeckSuccess")
    /\ LoadingFrame

\* The detail view presents selectedDeck as loaded.
PresentedAsLoaded ==
    /\ view = "detail"
    /\ loader.selectedDeck # "null"
    /\ ~loader.loading
    /\ error = "null"

\* Start Study Session on the deck presented.
LoadingStartStudy ==
    /\ PresentedAsLoaded
    /\ Len(deckCards) # 0
    /\ handleStartStudy
    /\ UNCHANGED componentVars

\* Cancel in the setup view: handleSetupCancel, then the effect of the detail
\* view.
LoadingSetupCancel ==
    /\ view = "setup"
    /\ InFlight < MaxInFlight
    /\ view' = "detail"
    /\ loader' = loadDeckDetails(loader)
    /\ error' = "null"
    /\ lastOp' = LoadOp("handleSetupCancel")
    /\ UNCHANGED deckCards
    /\ LoadingFrame

\* Retry in the list view: window.location.reload() mounts App anew; the
\* responses to the requests of the page left are dropped.
LoadingRetry ==
    /\ view = "list"
    /\ error # "null"
    /\ loader' = refreshDeckList([NoLoader EXCEPT !.created = loader.created])
    /\ error' = "null"
    /\ lastOp' = LoadOp("reload")
    /\ UNCHANGED <<view, deckCards>>
    /\ LoadingFrame

NextLoading ==
    \/ GetDecksResolved
    \/ GetDecksRejected
    \/ \E deckId \in DeckIds : GetDeckResolved(deckId)
    \/ \E deckId \in DeckIds : GetDeckRejected(deckId)
    \/ \E deckId \in DeckIds : LoadingDeckSelect(deckId)
    \/ LoadingBack
    \/ LoadingCreateDeck
    \/ LoadingCreateDeckCancel
    \/ LoadingCreateDeckSuccess
    \/ LoadingStartStudy
    \/ LoadingSetupCancel
    \/ LoadingRetry

SpecLoading == InitLoading /\ [][NextLoading]_vars

----------------------------------------------------------------------------
(* session.ts on a heap: objects, references and copies *)

\* heap.cells is the sequence of allocated objects, an address its index.
\* A state object refers to its queue (an Array), its incorrectCardIds (a
\* Set) and its cycle1Answers (a Map) by address. heap.input is the state a
\* caller passes, heap.output and heap.again the states two calls returned.

ArrayObject(items) == [kind |-> "Array", items |-> items]

SetObject(elems) == [kind |-> "Set", elems |-> elems]

MapObject(entries) == [kind |-> "Map", entries |-> entries]

StateObject(cycle, index, queue, incorrect, answers) ==
    [kind |-> "State", cycle |-> cycle, currentCardIndex |-> index,
     cycleQueue |-> queue, incorrectCardIds |-> incorrect, cycle1Answers |-> answers]

\* The contents of the state object at an address, references followed.
Contents(cells, address) ==
    [cycle |-> cells[address].cycle,
     currentCardIndex |-> cells[address].currentCardIndex,
     cycleQueue |-> cells[cells[address].cycleQueue].items,
     incorrectCardIds |-> cells[cells[address].incorrectCardIds].elems,
     cycle1Answers |-> cells[cells[address].cycle1Answers].entries]

\* A heap that holds one state with the given contents and nothing else:
\* what is left once the caller keeps only that state.
HeapOf(state) ==
    [cells |-> <<ArrayObject(state.cycleQueue),
                 SetObject(state.incorrectCardIds),
                 MapObject(state.cycle1Answers),
                 StateObject(state.cycle, state.currentCardIndex, 1, 2, 3)>>,
     input |-> 4, output |-> 0, again |-> 0]

\* Mutant: the incorrect set of the input is updated in place (no copy).
applyAnswerOnHeap_InPlace(cells, state, cardId, wasCorrect) ==
    LET newIncorrectIds == cells[state].incorrectCardIds
        updated == [cells EXCEPT ![newIncorrectIds].elems =
                        IF ~wasCorrect THEN @ \cup {cardId} ELSE @ \ {cardId}]
        newCycle1Answers == Len(updated) + 1
        mapped == Append(updated,
                         MapObject(IF cells[state].cycle = 1
                                   THEN MapSet(cells[cells[state].cycle1Answers].entries,
                                               cardId, wasCorrect)
                                   ELSE cells[cells[state].cycle1Answers].entries))
        result == Len(mapped) + 1
    IN  [cells |-> Append(mapped,
                          [cells[state] EXCEPT !.currentCardIndex = @ + 1,
                                               !.incorrectCardIds = newIncorrectIds,
                                               !.cycle1Answers = newCycle1Answers]),
         result |-> result]

\* applyAnswer: new Set(state.incorrectCardIds) receives the add or delete,
\* new Map(state.cycle1Answers) the set; the returned object is a spread of
\* state with the index and the two new references.
applyAnswerOnHeap(cells, state, cardId, wasCorrect) ==
    LET newIncorrectIds == Len(cells) + 1
        copied == Append(cells, SetObject(cells[cells[state].incorrectCardIds].elems))
        updated == [copied EXCEPT ![newIncorrectIds].elems =
                        IF ~wasCorrect THEN @ \cup {cardId} ELSE @ \ {cardId}]
        newCycle1Answers == Len(updated) + 1
        mapCopied == Append(updated, MapObject(cells[cells[state].cycle1Answers].entries))
        mapped == IF cells[state].cycle = 1
                  THEN [mapCopied EXCEPT ![newCycle1Answers].entries =
                            MapSet(@, cardId, wasCorrect)]
                  ELSE mapCopied
        result == Len(mapped) + 1
    IN  [cells |-> Append(mapped,
                          [cells[state] EXCEPT !.currentCardIndex = @ + 1,
                                               !.incorrectCardIds = newIncorrectIds,
                                               !.cycle1Answers = newCycle1Answers]),
         result |-> result]

\* startNextCycle: buildCycleQueue returns a new array (a copy or a filter);
\* the returned object is a spread of state, so it shares the Set and the Map
\* of the input.
startNextCycleOnHeap(cells, state, allCards) ==
    LET nextCycle == cells[state].cycle + 1
        nextQueue == Len(cells) + 1
        queued == Append(cells,
                         ArrayObject(buildCycleQueue(allCards,
                                         cells[cells[state].incorrectCardIds].elems,
                                         nextCycle)))
        result == Len(queued) + 1
    IN  [cells |-> Append(queued,
                          [cells[state] EXCEPT !.cycle = nextCycle,
                                               !.currentCardIndex = 0,
                                               !.cycleQueue = nextQueue]),
         result |-> result]

\* The call the history names, made on the input state.
CallOnHeap(op, cardId, wasCorrect) ==
    IF op = "applyAnswer"
    THEN applyAnswerOnHeap(heap.cells, heap.input, cardId, wasCorrect)
    ELSE startNextCycleOnHeap(heap.cells, heap.input, deckCards)

HeapInitSession ==
    /\ heap = NoHeap
    /\ heap' = HeapOf(initSession(deckCards))
    /\ lastOp' = Op("initSession", "", FALSE, 0, NullSession, NullSession, Continue)
    /\ UNCHANGED <<view, deckCards, sessionState, sessionOptions, error,
                   showEndSessionConfirm, keyField, results, setupForm, isFlipped, loader>>

\* applyAnswer(input, cardId, wasCorrect); the history keeps what the input
\* held before the call.
HeapApplyAnswer(cardId, wasCorrect) ==
    /\ heap.input # 0
    /\ heap.output = 0
    /\ shouldAdvanceCycle(Contents(heap.cells, heap.input), deckCards) = Continue
    /\ cardId \in KeysOf(deckCards, keyField)
    /\ LET call == CallOnHeap("applyAnswer", cardId, wasCorrect)
       IN  heap' = [heap EXCEPT !.cells = call.cells, !.output = call.result]
    /\ lastOp' = Op("applyAnswer", cardId, wasCorrect, 0,
                    Contents(heap.cells, heap.input), NullSession, Continue)
    /\ UNCHANGED <<view, deckCards, sessionState, sessionOptions, error,
                   showEndSessionConfirm, keyField, results, setupForm, isFlipped, loader>>

\* startNextCycle(input, allCards).
HeapStartNextCycle ==
    /\ heap.input # 0
    /\ heap.output = 0
    /\ shouldAdvanceCycle(Contents(heap.cells, heap.input), deckCards).shouldAdvance
    /\ LET call == CallOnHeap("startNextCycle", "", FALSE)
       IN  heap' = [heap EXCEPT !.cells = call.cells, !.output = call.result]
    /\ lastOp' = Op("startNextCycle", "", FALSE, 0,
                    Contents(heap.cells, heap.input), NullSession, Continue)
    /\ UNCHANGED <<view, deckCards, sessionState, sessionOptions, error,
                   showEndSessionConfirm, keyField, results, setupForm, isFlipped, loader>>

\* The same call once more, on the same input with the same arguments.
HeapCallAgain ==
    /\ heap.output # 0
    /\ heap.again = 0
    /\ LET call == CallOnHeap(lastOp.op, lastOp.cardId, lastOp.wasCorrect)
       IN  heap' = [heap EXCEPT !.cells = call.cells, !.again = call.result]
    /\ UNCHANGED <<view, deckCards, sessionState, sessionOptions, error,
                   showEndSessionConfirm, keyField, lastOp, results, setupForm, isFlipped, loader>>

\* The caller goes on with the state the first call returned and drops every
\* other reference.
HeapKeepOutput ==
    /\ heap.again # 0
    /\ heap' = HeapOf(Contents(heap.cells, heap.output))
    /\ lastOp' = NoOp
    /\ UNCHANGED <<view, deckCards, sessionState, sessionOptions, error,
                   showEndSessionConfirm, keyField, results, setupForm, isFlipped, loader>>

InitHeap ==
    /\ view = "engine"
    /\ deckCards \in EngineDecks
    /\ sessionState = NullSession
    /\ sessionOptions = NullOptions
    /\ error = "null"
    /\ showEndSessionConfirm = FALSE
    /\ keyField \in {"id", "uid"}
    /\ lastOp = NoOp
    /\ results = NoResults
    /\ setupForm = DefaultForm
    /\ isFlipped = FALSE
    /\ heap = NoHeap
    /\ loader = NoLoader

NextHeap ==
    \/ HeapInitSession
    \/ \E cardId \in AllKeys, wasCorrect \in BOOLEAN : HeapApplyAnswer(cardId, wasCorrect)
    \/ HeapStartNextCycle
    \/ HeapCallAgain
    \/ HeapKeepOutput

SpecHeap == InitHeap /\ [][NextHeap]_vars

----------------------------------------------------------------------------
(* Properties *)

\* The cycle is exhausted: currentCardIndex = cycleQueue.length.
Exhausted(state) == state.currentCardIndex = Len(state.cycleQueue)

\* The subsequence of the deck whose uid is in ids.
CardsWithUidIn(cards, ids) == SelectSeq(cards, LAMBDA card : card.uid \in ids)

\* C1. Ceiling termination: in a session configured with maxCycles = M, when
\* shouldAdvanceCycle is evaluated on an exhausted cycle with incorrect cards
\* left and cycle >= M it answers {shouldAdvance: false, shouldEnd: true}, and
\* the session's cycle never exceeds M.
C1_CeilingTermination ==
    sessionState # NullSession =>
        /\ sessionState.cycle <= sessionOptions.maxCycles
        /\ (/\ lastOp.op = "handleCardAnswer"
            /\ Exhausted(lastOp.applied)
            /\ lastOp.applied.incorrectCardIds # {}
            /\ lastOp.applied.cycle >= sessionOptions.maxCycles)
           => lastOp.decision = EndSession

\* C2. Advance to the next cycle: for every M in 1..6, on an exhausted cycle
\* with incorrect cards left and cycle < M, shouldAdvanceCycle answers
\* {shouldAdvance: true, shouldEnd: false}.
C2_AdvanceBelowCeiling ==
    \A M \in CycleOptions :
        (/\ sessionState # NullSession
         /\ Exhausted(sessionState)
         /\ sessionState.incorrectCardIds # {}
         /\ sessionState.cycle < M)
        => shouldAdvanceCycle(sessionState, deckCards) = Advance

\* C3. Retry queue content: answers are recorded under the card's uid, and
\* the queue of a cycle started by startNextCycle is exactly the cards of the
\* deck whose uid is in incorrectCardIds when the cycle starts, in deck order.
C3_RetryQueueContent ==
    (lastOp.op = "handleCardAnswer" /\ lastOp.decision.shouldAdvance) =>
        /\ lastOp.cardId \in KeysOf(deckCards, "uid")
        /\ sessionState.cycle > 1
        /\ sessionState.cycleQueue =
              CardsWithUidIn(deckCards, sessionState.incorrectCardIds)

\* C4. Early termination: on an exhausted cycle with an empty incorrect set
\* shouldAdvanceCycle answers {shouldAdvance: false, shouldEnd: true}, in
\* every cycle.
C4_EarlyTermination ==
    (/\ sessionState # NullSession
     /\ Exhausted(sessionState)
     /\ sessionState.incorrectCardIds = {})
    => shouldAdvanceCycle(sessionState, deckCards) = EndSession

\* C4 witness: a retry cycle of at least one card ends with nothing incorrect.
C4_Witness ==
    /\ sessionState.cycle > 1
    /\ Len(sessionState.cycleQueue) > 0
    /\ Exhausted(sessionState)
    /\ sessionState.incorrectCardIds = {}

\* C5. shouldAdvanceCycle answers {false, false} exactly when
\* currentCardIndex < cycleQueue.length, and always one of {false, false},
\* {false, true}, {true, false}: never both true.
C5_ThreeOutcomes ==
    sessionState # NullSession =>
        LET r == shouldAdvanceCycle(sessionState, deckCards)
        IN  /\ (r = Continue) <=>
                  (sessionState.currentCardIndex < Len(sessionState.cycleQueue))
            /\ r \in {Continue, EndSession, Advance}
            /\ ~(r.shouldAdvance /\ r.shouldEnd)

\* C5 witness: the last card of a non-empty cycle has just been answered.
C5_Witness ==
    /\ lastOp.op = "applyAnswer"
    /\ Len(sessionState.cycleQueue) > 0
    /\ sessionState.currentCardIndex = Len(sessionState.cycleQueue)
    /\ lastOp.pre.currentCardIndex < Len(lastOp.pre.cycleQueue)

\* C6. First write wins: once cycle1Answers has an entry for a uid, no
\* applyAnswer changes that entry's value.
C6_FirstWriteWins ==
    lastOp.op = "applyAnswer" =>
        \A k \in DOMAIN lastOp.pre.cycle1Answers :
            /\ k \in DOMAIN sessionState.cycle1Answers
            /\ sessionState.cycle1Answers[k] = lastOp.pre.cycle1Answers[k]

\* C7. applyAnswer(state, cardUid, wasCorrect) yields incorrectCardIds =
\* state.incorrectCardIds \ {cardUid} when wasCorrect, and
\* state.incorrectCardIds \cup {cardUid} when not, in every cycle.
C7_IncorrectSetUpdate ==
    lastOp.op = "applyAnswer" =>
        sessionState.incorrectCardIds =
            IF lastOp.wasCorrect
            THEN {k \in lastOp.pre.incorrectCardIds : k # lastOp.cardId}
            ELSE {k \in AllKeys : k \in lastOp.pre.incorrectCardIds \/ k = lastOp.cardId}

\* C7 witness: a correct answer in a later cycle removes a card that was in
\* the incorrect set.
C7_Witness ==
    /\ lastOp.op = "applyAnswer"
    /\ lastOp.pre.cycle > 1
    /\ lastOp.wasCorrect
    /\ lastOp.cardId \in lastOp.pre.incorrectCardIds
    /\ lastOp.cardId \notin sessionState.incorrectCardIds

\* C8. A uid leaves incorrectCardIds only in an applyAnswer step for that uid
\* with wasCorrect = true and enters it only in an applyAnswer step for that
\* uid with wasCorrect = false (startNextCycle moves none); an answer for one
\* card leaves every other card's membership and cycle1Answers entry as it was.
C8_AnswerFrame ==
    lastOp.op \in {"applyAnswer", "startNextCycle"} =>
        LET pre == lastOp.pre
            answered == lastOp.op = "applyAnswer"
        IN  \A k \in AllKeys :
              /\ (k \in pre.incorrectCardIds /\ k \notin sessionState.incorrectCardIds)
                    => (answered /\ lastOp.cardId = k /\ lastOp.wasCorrect)
              /\ (k \notin pre.incorrectCardIds /\ k \in sessionState.incorrectCardIds)
                    => (answered /\ lastOp.cardId = k /\ ~lastOp.wasCorrect)
              /\ (answered /\ k # lastOp.cardId) =>
                    /\ MapHas(sessionState.cycle1Answers, k) <=> MapHas(pre.cycle1Answers, k)
                    /\ MapHas(pre.cycle1Answers, k) =>
                          sessionState.cycle1Answers[k] = pre.cycle1Answers[k]

\* C8 witness: a cycle has just been started while a card was incorrect.
C8_Witness ==
    /\ lastOp.op = "startNextCycle"
    /\ lastOp.pre.incorrectCardIds # {}
    /\ Len(sessionState.cycleQueue) > 0

\* C9. cycle1Answers is written only while cycle = 1: an applyAnswer on a
\* state with cycle > 1 leaves cycle1Answers, computeScores().rightOnFirstTry
\* and calculateCycle1Score() as they were.
C9_Cycle1Only ==
    (lastOp.op = "applyAnswer" /\ lastOp.pre.cycle > 1) =>
        /\ DOMAIN sessionState.cycle1Answers = DOMAIN lastOp.pre.cycle1Answers
        /\ \A k \in DOMAIN lastOp.pre.cycle1Answers :
              sessionState.cycle1Answers[k] = lastOp.pre.cycle1Answers[k]
        /\ computeScores(sessionState).rightOnFirstTry =
              computeScores(lastOp.pre).rightOnFirstTry
        /\ calculateCycle1Score(sessionState) = calculateCycle1Score(lastOp.pre)

\* C9 witness: a card answered incorrectly in cycle 1 is answered correctly
\* in a later cycle.
C9_Witness ==
    /\ lastOp.op = "applyAnswer"
    /\ lastOp.pre.cycle > 1
    /\ MapHas(lastOp.pre.cycle1Answers, lastOp.cardId)
    /\ lastOp.pre.cycle1Answers[lastOp.cardId] = FALSE
    /\ lastOp.wasCorrect

\* C10. initSession(D, M) returns cycle = 1, currentCardIndex = 0, empty
\* incorrectCardIds and cycle1Answers, and a cycleQueue equal to D's cards in
\* their order, each exactly once, for every deck D and every M.
C10_InitSession ==
    lastOp.op = "initSession" =>
        /\ sessionState.cycle = 1
        /\ sessionState.currentCardIndex = 0
        /\ sessionState.incorrectCardIds = {}
        /\ DOMAIN sessionState.cycle1Answers = {}
        /\ Len(sessionState.cycleQueue) = Len(deckCards)
        /\ \A i \in 1..Len(deckCards) : sessionState.cycleQueue[i] = deckCards[i]
        /\ \A i \in 1..Len(deckCards) :
              Cardinality({j \in DOMAIN sessionState.cycleQueue :
                              sessionState.cycleQueue[j] = deckCards[i]}) = 1

\* C10 witness: a session has just been initialised on a deck of two cards.
C10_Witness ==
    /\ lastOp.op = "initSession"
    /\ lastOp.maxCycles >= 1
    /\ Len(deckCards) = 2

\* C11. startNextCycle(state, allCards) returns cycle = state.cycle + 1,
\* currentCardIndex = 0 and cycleQueue = buildCycleQueue(allCards,
\* state.incorrectCardIds, state.cycle + 1), and leaves incorrectCardIds and
\* cycle1Answers as they were.
C11_StartNextCycle ==
    lastOp.op = "startNextCycle" =>
        /\ sessionState.cycle = lastOp.pre.cycle + 1
        /\ sessionState.currentCardIndex = 0
        /\ sessionState.cycleQueue =
              buildCycleQueue(deckCards, lastOp.pre.incorrectCardIds, lastOp.pre.cycle + 1)
        /\ sessionState.incorrectCardIds = lastOp.pre.incorrectCardIds
        /\ DOMAIN sessionState.cycle1Answers = DOMAIN lastOp.pre.cycle1Answers
        /\ \A k \in DOMAIN lastOp.pre.cycle1Answers :
              sessionState.cycle1Answers[k] = lastOp.pre.cycle1Answers[k]

\* C11 witness: a cycle has just been started with some, not all, cards of
\* the deck, after answers in cycle 1.
C11_Witness ==
    /\ lastOp.op = "startNextCycle"
    /\ Len(sessionState.cycleQueue) > 0
    /\ Len(sessionState.cycleQueue) < Len(deckCards)
    /\ DOMAIN sessionState.cycle1Answers # {}

\* C12. In a driven session every applyAnswer increases currentCardIndex by
\* exactly 1 and leaves cycle and cycleQueue unchanged; currentCardIndex never
\* exceeds cycleQueue.length, and after an answer it is 0 exactly when the
\* cycle has increased (startNextCycle), otherwise one more than before.
C12_IndexProgress ==
    /\ sessionState # NullSession =>
          /\ sessionState.currentCardIndex >= 0
          /\ sessionState.currentCardIndex <= Len(sessionState.cycleQueue)
    /\ lastOp.op = "handleCardAnswer" =>
          /\ lastOp.applied.currentCardIndex = lastOp.pre.currentCardIndex + 1
          /\ lastOp.applied.cycle = lastOp.pre.cycle
          /\ lastOp.applied.cycleQueue = lastOp.pre.cycleQueue
          /\ sessionState.cycle >= lastOp.pre.cycle
          /\ (sessionState.currentCardIndex = 0) <=> (sessionState.cycle > lastOp.pre.cycle)
          /\ sessionState.cycle = lastOp.pre.cycle =>
                /\ sessionState.currentCardIndex = lastOp.pre.currentCardIndex + 1
                /\ sessionState.cycleQueue = lastOp.pre.cycleQueue
          /\ sessionState.cycle > lastOp.pre.cycle =>
                /\ sessionState.cycle = lastOp.pre.cycle + 1
                /\ lastOp.decision.shouldAdvance

\* C12 witness: the answer to the last of several cards starts the next cycle.
C12_Witness ==
    /\ lastOp.op = "handleCardAnswer"
    /\ lastOp.pre.currentCardIndex >= 1
    /\ sessionState.cycle = lastOp.pre.cycle + 1
    /\ sessionState.currentCardIndex = 0

\* C13: a card whose cycle-1 answer is TRUE is classified correct-first-time,
\* whether or not its uid is also in incorrectCardIds.
C13_FirstTimeWins ==
    results.shown =>
        \A i \in DOMAIN deckCards :
            LET uid == deckCards[i].uid
            IN  (MapHas(sessionState.cycle1Answers, uid)
                    /\ sessionState.cycle1Answers[uid] = TRUE)
                => results.outcomes[uid] = "correct-first-time"

\* C13 witness: a classified card answered correctly in cycle 1 whose uid is
\* nevertheless in incorrectCardIds.
C13_Witness ==
    /\ results.shown
    /\ \E i \in DOMAIN deckCards :
          /\ MapHas(sessionState.cycle1Answers, deckCards[i].uid)
          /\ sessionState.cycle1Answers[deckCards[i].uid] = TRUE
          /\ deckCards[i].uid \in sessionState.incorrectCardIds

\* C14: a card without a cycle-1 answer is unattempted; a card answered FALSE
\* is missed when its uid is in incorrectCardIds and correct-on-retry when it
\* is not; every card of every state gets one of the four outcomes.
C14_Classification ==
    results.shown =>
        \A i \in DOMAIN deckCards :
            LET uid == deckCards[i].uid
                answered == MapHas(sessionState.cycle1Answers, uid)
                outcome == results.outcomes[uid]
            IN  /\ outcome \in {"correct-first-time", "correct-on-retry",
                                "missed", "unattempted"}
                /\ ~answered => outcome = "unattempted"
                /\ (answered /\ sessionState.cycle1Answers[uid] = FALSE
                        /\ uid \in sessionState.incorrectCardIds)
                   => outcome = "missed"
                /\ (answered /\ sessionState.cycle1Answers[uid] = FALSE
                        /\ uid \notin sessionState.incorrectCardIds)
                   => outcome = "correct-on-retry"

\* C14 witness: two classified cards answered FALSE in cycle 1, one still in
\* incorrectCardIds and one not.
C14_Witness ==
    /\ results.shown
    /\ \E i, j \in DOMAIN deckCards :
          /\ MapHas(sessionState.cycle1Answers, deckCards[i].uid)
          /\ MapHas(sessionState.cycle1Answers, deckCards[j].uid)
          /\ sessionState.cycle1Answers[deckCards[i].uid] = FALSE
          /\ sessionState.cycle1Answers[deckCards[j].uid] = FALSE
          /\ deckCards[i].uid \in sessionState.incorrectCardIds
          /\ deckCards[j].uid \notin sessionState.incorrectCardIds

\* C15: rightOnFirstTry.total is the number of entries of cycle1Answers,
\* .correct the number of TRUE entries, and .percent is 0 when total is 0.
C15_RightOnFirstTry ==
    results.shown =>
        LET answers == sessionState.cycle1Answers
            score == results.scores.rightOnFirstTry
        IN  /\ score.total = Cardinality(DOMAIN answers)
            /\ score.correct = Cardinality({k \in DOMAIN answers : answers[k] = TRUE})
            /\ score.total = 0 => score.percent = 0

\* C15 witness: scores computed from cycle-1 answers of both kinds.
C15_Witness ==
    /\ results.shown
    /\ \E k \in DOMAIN sessionState.cycle1Answers : sessionState.cycle1Answers[k] = TRUE
    /\ \E k \in DOMAIN sessionState.cycle1Answers : sessionState.cycle1Answers[k] = FALSE
    /\ results.scores.rightOnFirstTry.correct < results.scores.rightOnFirstTry.total

\* C16: overallScore.total is the number of entries of cycle1Answers, and
\* .correct the number of uids in it whose entry is TRUE, or is FALSE with
\* the uid not in incorrectCardIds.
C16_OverallScore ==
    results.shown =>
        LET answers == sessionState.cycle1Answers
            score == results.scores.overallScore
        IN  /\ score.total = Cardinality(DOMAIN answers)
            /\ score.correct =
                  Cardinality({k \in DOMAIN answers : answers[k] = TRUE})
                  + Cardinality({k \in DOMAIN answers :
                                    /\ answers[k] = FALSE
                                    /\ k \notin sessionState.incorrectCardIds})

\* C16 witness: scores computed with one card corrected in a later cycle and
\* another still incorrect.
C16_Witness ==
    /\ results.shown
    /\ \E j, k \in DOMAIN sessionState.cycle1Answers :
          /\ sessionState.cycle1Answers[j] = FALSE
          /\ sessionState.cycle1Answers[k] = FALSE
          /\ j \notin sessionState.incorrectCardIds
          /\ k \in sessionState.incorrectCardIds

\* correct/total*100 rounded half-up to the nearest integer, in exact
\* integer arithmetic.
RoundHalfUp(correct, total) == (200 * correct + total) \div (2 * total)

\* C17: with total > 0, both percent fields equal correct/total*100 rounded
\* half-up to the nearest integer.
C17_RoundHalfUp ==
    results.shown =>
        /\ results.scores.rightOnFirstTry.total > 0 =>
              results.scores.rightOnFirstTry.percent =
                  RoundHalfUp(results.scores.rightOnFirstTry.correct,
                              results.scores.rightOnFirstTry.total)
        /\ results.scores.overallScore.total > 0 =>
              results.scores.overallScore.percent =
                  RoundHalfUp(results.scores.overallScore.correct,
                              results.scores.overallScore.total)

\* C18: each count of the breakdown is the number of cards of the deck,
\* attempted or not, that classifyCardOutcome gives that outcome.
C18_Breakdown ==
    results.shown =>
        LET CardsWith(outcome) ==
                Cardinality({i \in DOMAIN deckCards :
                    classifyCardOutcome(deckCards[i], sessionState) = outcome})
        IN  /\ results.breakdown.correctFirstTime = CardsWith("correct-first-time")
            /\ results.breakdown.correctOnRetry = CardsWith("correct-on-retry")
            /\ results.breakdown.missed = CardsWith("missed")
            /\ results.breakdown.unattempted = CardsWith("unattempted")

\* C18 witness: a breakdown over a deck with an attempted and an unattempted
\* card.
C18_Witness ==
    /\ results.shown
    /\ results.breakdown.unattempted >= 1
    /\ results.breakdown.unattempted < Len(deckCards)

\* The cycle-1 answers of a deck given in deck order.
AnswersInOrder(cards, values) ==
    [uid \in {cards[i].uid : i \in DOMAIN cards} |->
        values[CHOOSE i \in DOMAIN cards : cards[i].uid = uid]]

\* The answer just handled was the last of cycle 1 of a session over `size`
\* cards with the given maxCycles option, and cycle 1 recorded `values`.
AfterCycle1(size, maxCycles, values) ==
    /\ Len(deckCards) = size
    /\ sessionOptions # NullOptions
    /\ sessionOptions.maxCycles = maxCycles
    /\ lastOp.op = "handleCardAnswer"
    /\ lastOp.pre.cycle = 1
    /\ lastOp.pre.currentCardIndex = size - 1
    /\ lastOp.applied.cycle1Answers = AnswersInOrder(deckCards, values)

\* C19: deck [A, B, C], maxCycles = 4: after A correct, B incorrect, C correct
\* the session is in cycle 2 with cycleQueue = [B].
C19_RetryScenario ==
    AfterCycle1(3, 4, <<TRUE, FALSE, TRUE>>) =>
        /\ view = "study"
        /\ sessionState.cycle = 2
        /\ sessionState.cycleQueue = <<deckCards[2]>>

\* C20: a deck of 2 cards, maxCycles = 3: after both are answered incorrectly
\* in cycle 1 the session shows both cards again in cycle 2.
C20_CeilingScenario ==
    AfterCycle1(2, 3, <<FALSE, FALSE>>) =>
        /\ view = "study"
        /\ sessionState.cycle = 2
        /\ sessionState.cycleQueue = deckCards

\* The state holds exactly `state.currentCardIndex` cycle-1 answers, all of
\* them correct.
AllCorrectSoFar(state) ==
    /\ state.cycle = 1
    /\ Cardinality(DOMAIN state.cycle1Answers) = state.currentCardIndex
    /\ \A k \in DOMAIN state.cycle1Answers : state.cycle1Answers[k] = TRUE

\* C21: while every card of cycle 1 is answered correctly, shouldAdvanceCycle
\* returns {false, false} after each answer before the last and {false, true}
\* after the last; the session ends in cycle 1 and rightOnFirstTry.percent is
\* 100, whatever maxCycles was chosen.
C21_AllCorrectRoundTrip ==
    /\ (lastOp.op = "handleCardAnswer" /\ AllCorrectSoFar(lastOp.applied)) =>
          IF lastOp.applied.currentCardIndex < Len(deckCards)
          THEN /\ lastOp.decision = Continue
               /\ view = "study"
               /\ sessionState = lastOp.applied
          ELSE /\ lastOp.decision = EndSession
               /\ view \in {"results", "detailed-results"}
               /\ sessionState = lastOp.applied
               /\ sessionState.cycle = 1
    /\ (results.shown /\ AllCorrectSoFar(sessionState)
            /\ sessionState.currentCardIndex >= 1) =>
          results.scores.rightOnFirstTry.percent = 100

\* C21 witness: a deck of several cards all answered correctly, with more
\* than one cycle allowed, on the results view.
C21_Witness ==
    /\ results.shown
    /\ lastOp.op = "handleCardAnswer"
    /\ lastOp.decision = EndSession
    /\ AllCorrectSoFar(sessionState)
    /\ Len(deckCards) >= 2
    /\ sessionState.currentCardIndex = Len(deckCards)
    /\ sessionOptions.maxCycles > 1

\* The number of cycles the README and the engine's doc comment announce.
DocumentedCycles == 4

C24_EmptyQueueExhausted ==
    /\ (sessionState # NullSession /\ Len(sessionState.cycleQueue) = 0) =>
          shouldAdvanceCycle(sessionState, deckCards) # Continue
    /\ (lastOp.op = "initSession" /\ Len(deckCards) = 0) =>
          /\ sessionState = initSession(<<>>)
          /\ shouldAdvanceCycle(sessionState, deckCards) = EndSession

\* C24 witness: initSession was called on the empty deck.
C24_Witness ==
    /\ lastOp.op = "initSession"
    /\ deckCards = <<>>
    /\ sessionState # NullSession
    /\ Len(sessionState.cycleQueue) = 0

\* C23: a session that is under way eventually reaches the results view
\* (or is left by the user), given that presented cards get answered.
C23_Termination == (view = "study") ~> (view # "study")

C26_SessionDiscarded ==
    /\ sessionState # NullSession =>
          view \in {"study", "results", "detailed-results"}
    /\ (lastOp.op = "handleBack" /\ lastOp.from \in {"study", "results"}) =>
          /\ sessionState = NullSession
          /\ view = "detail"
    /\ lastOp.op = "handleFinish" =>
          /\ sessionState = NullSession
          /\ view = "list"
    /\ lastOp.op = "initSession" =>
          sessionState = [cycle |-> 1,
                          currentCardIndex |-> 0,
                          cycleQueue |-> deckCards,
                          incorrectCardIds |-> {},
                          cycle1Answers |-> EmptyMap]

\* C26 witness: Back was pressed on the results of a session.
C26_Witness ==
    /\ lastOp.op = "handleBack"
    /\ lastOp.from = "results"
    /\ view = "detail"
    /\ sessionState = NullSession

\* C29: End Session confirmed in cycle 1 after k of the deck's n cards: both
\* totals are k and the breakdown has n - k unattempted cards.
C29_EndSessionScores ==
    (results.shown /\ sessionState.cycle = 1
        /\ sessionState.currentCardIndex < Len(deckCards)) =>
        LET k == sessionState.currentCardIndex
            n == Len(deckCards)
        IN  /\ results.scores.rightOnFirstTry.total = k
            /\ results.scores.overallScore.total = k
            /\ results.breakdown.unattempted = n - k
            /\ results.breakdown.correctFirstTime + results.breakdown.correctOnRetry
                  + results.breakdown.missed = k

\* C29 witness: results of a session ended after some but not all cards of
\* cycle 1.
C29_Witness ==
    /\ results.shown
    /\ sessionState.cycle = 1
    /\ sessionState.currentCardIndex >= 1
    /\ sessionState.currentCardIndex < Len(deckCards)

\* C27: whatever is typed, incremented or decremented in the setup form, the
\* maxCycles it holds and submits is an integer in [1, 6], 4 at first; a typed
\* text that is no number or out of range leaves the value as it was.
C27_MaxCyclesInRange ==
    /\ setupForm.maxCycles \in 1..6
    /\ lastOp.op = "none" => setupForm.maxCycles = 4
    /\ lastOp.op = "changeMaxCycles" =>
          IF ~lastOp.value.nan /\ lastOp.value.value \in 1..6
          THEN setupForm.maxCycles = lastOp.value.value
          ELSE setupForm.maxCycles = lastOp.previous
    /\ lastOp.op = "initSession" =>
          /\ sessionOptions.maxCycles = setupForm.maxCycles
          /\ lastOp.maxCycles \in 1..6

\* C27 witness: a session is started after the value was changed.
C27_Witness ==
    /\ lastOp.op = "initSession"
    /\ view = "study"
    /\ sessionOptions.maxCycles # 4

\* The face of the card that is showing.
ShowingFace == IF isFlipped THEN "back" ELSE "front"

\* C28: session state changes by a judgment only while the face opposite
\* startSide is showing, and a swipe made while the start side is showing
\* changes neither the session state nor the view.
C28_ScoringSideOnly ==
    /\ [][(view = "study" /\ sessionState' # sessionState /\ sessionState' # NullSession)
            => ShowingFace # sessionOptions.startSide]_vars
    /\ [](lastOp.op = "swipeIgnored" =>
            /\ sessionState = lastOp.pre
            /\ view = "study"
            /\ ShowingFace = sessionOptions.startSide)
    /\ [](lastOp.op = "initSession" => ShowingFace = sessionOptions.startSide)

\* C28 witness: a swipe was made on the start side of a session that starts
\* with the back of the cards.
C28_Witness ==
    /\ lastOp.op = "swipeIgnored"
    /\ sessionOptions.startSide = "back"
    /\ sessionState.currentCardIndex >= 1

\* C30: after applyAnswer or startNextCycle the input state holds what it
\* held before the call, and the same call on the same input returns a state
\* with equal contents.
C30_InputNotMutated ==
    (lastOp.op \in {"applyAnswer", "startNextCycle"} /\ heap.output # 0) =>
        /\ Contents(heap.cells, heap.input) = lastOp.pre
        /\ heap.again # 0 =>
              Contents(heap.cells, heap.again) = Contents(heap.cells, heap.output)

\* C30 witness: applyAnswer was called twice on a state whose sets the
\* answer changes.
C30_Witness ==
    /\ lastOp.op = "applyAnswer"
    /\ heap.again # 0
    /\ Contents(heap.cells, heap.output).incorrectCardIds # lastOp.pre.incorrectCardIds
    /\ Contents(heap.cells, heap.output).cycle1Answers # lastOp.pre.cycle1Answers

\* C31: whenever the study view is shown there is a current card, that is
\* currentCardIndex < |cycleQueue|: neither "No cards available in this
\* cycle." nor "No session active." is ever displayed.
C31_NoDeadEnd ==
    view = "study" =>
        /\ sessionState # NullSession
        /\ sessionState.currentCardIndex < Len(sessionState.cycleQueue)

\* C32: in a session driven by the study view every uid of incorrectCardIds
\* has an entry in cycle1Answers and that entry is false: a card answered
\* correctly in cycle 1 is never in incorrectCardIds.
C32_IncorrectWereWrongFirst ==
    sessionState # NullSession =>
        \A uid \in sessionState.incorrectCardIds :
            /\ MapHas(sessionState.cycle1Answers, uid)
            /\ sessionState.cycle1Answers[uid] = FALSE

\* C32 witness: a session in which one card was judged wrong and another one
\* right.
C32_Witness ==
    /\ view = "study"
    /\ sessionState.incorrectCardIds # {}
    /\ \E uid \in DOMAIN sessionState.cycle1Answers : sessionState.cycle1Answers[uid]

\* C33: for a deck whose cards have pairwise distinct uids and any session
\* state, the four counts of the breakdown add up to the number of cards of
\* the deck: every card has exactly one outcome.
C33_BreakdownPartition ==
    (results.shown
     /\ \A i, j \in DOMAIN deckCards : deckCards[i].uid = deckCards[j].uid => i = j)
    => /\ results.breakdown.correctFirstTime + results.breakdown.correctOnRetry
            + results.breakdown.missed + results.breakdown.unattempted
          = Len(deckCards)
       /\ \A i \in DOMAIN deckCards :
             results.outcomes[deckCards[i].uid] \in
                {"correct-first-time", "correct-on-retry", "missed", "unattempted"}

\* C33 witness: a breakdown of a deck of two cards, one corrected on a retry
\* and one never attempted.
C33_Witness ==
    /\ results.shown
    /\ Len(deckCards) = MaxEngineDeckLen
    /\ results.breakdown.correctOnRetry = 1
    /\ results.breakdown.unattempted = 1

\* C34: on the results view of a session driven by the study view the scores
\* and the breakdown agree: rightOnFirstTry.correct = correctFirstTime,
\* overallScore.correct = correctFirstTime + correctOnRetry and
\* overallScore.total = |deck| - unattempted.
C34_ScoresAgreeWithBreakdown ==
    (results.shown /\ view = "results") =>
        /\ results.scores.rightOnFirstTry.correct = results.breakdown.correctFirstTime
        /\ results.scores.overallScore.correct =
              results.breakdown.correctFirstTime + results.breakdown.correctOnRetry
        /\ results.scores.overallScore.total =
              Len(deckCards) - results.breakdown.unattempted

\* C34 witness: results of a session ended with one card right, one wrong and
\* one not attempted.
C34_Witness ==
    /\ results.shown
    /\ view = "results"
    /\ results.breakdown.correctFirstTime = 1
    /\ results.breakdown.missed = 1
    /\ results.breakdown.unattempted = 1

\* C36: for every card and every session state classifyCardStatus of the
\* detailed results returns correct-1st, correct-retry, missed, unattempted
\* exactly when classifyCardOutcome returns correct-first-time,
\* correct-on-retry, missed, unattempted: the per-card list holds as many
\* cards of a status as the breakdown counts.
C36_ClassifiersAgree ==
    (results.shown /\ view = "detailed-results") =>
        LET breakdown == computeBreakdown(deckCards, sessionState)
            Listed(status) ==
                Cardinality({i \in DOMAIN deckCards : results.statuses[i] = status})
        IN  /\ \A i \in DOMAIN deckCards :
                  results.statuses[i] =
                      outcomeToStatus(classifyCardOutcome(deckCards[i], sessionState))
            /\ Listed("correct-1st") = breakdown.correctFirstTime
            /\ Listed("correct-retry") = breakdown.correctOnRetry
            /\ Listed("missed") = breakdown.missed
            /\ Listed("unattempted") = breakdown.unattempted

\* C36 witness: a per-card list with a missed card and a card corrected on a
\* retry.
C36_Witness ==
    /\ results.shown
    /\ view = "detailed-results"
    /\ \E i, j \in DOMAIN deckCards :
          /\ results.statuses[i] = "missed"
          /\ results.statuses[j] = "correct-retry"

C37_LoadedDeckIsSelected ==
    /\ PresentedAsLoaded =>
          /\ loader.selectedDeck = loader.selectedDeckId
          /\ deckCards = CardsOfDeck(loader.selectedDeckId)
    /\ (lastOp.op = "handleStartStudy" /\ view = "setup") =>
          deckCards = CardsOfDeck(loader.selectedDeckId)

====
